---- MODULE Spec2Model ----
(***************************************************************************)
(* Credential issuance and verification engine of token-portal:            *)
(* the OTP flow (otp_service.py), API-token issuance                       *)
(* (api_token_service.py), the two-tier validation (dependencies.py) and   *)
(* revocation (endpoints/tokens.py), over a Redis store                    *)
(* (redis_service.py) and a transactional relational store (crud.py,       *)
(* session.py).  Every await of a handler is one step of a process, so     *)
(* that concurrent requests interleave exactly at the awaits.              *)
(***************************************************************************)
EXTENDS Integers, Sequences, FiniteSets, TLC

\* ------------------------------------------------------------------ bounds
MaxTicks == 2
MaxUserSeq == 2
MaxTokens == 1
MaxTokTicks == 1
MaxLogs == 2

\* two calls can be in flight at the same time
Procs == {1, 2}
Emails == {"a@x.com"}
\* generate_otp_code draws from 00000..99999; two codes keep the draw random
OtpCodes == {"00000", "12345"}

\* ------------------------------------------------- configuration (config.py)
OTP_EXPIRE_MINUTES == 5
ACCESS_TOKEN_EXPIRE_MINUTES == 60 * 24 * 7

\* Python's None / an Optional value
None == <<>>
Some(x) == <<x>>

VARIABLES
    now,        \* wall clock, seconds
    redis,      \* the Redis store: key -> None | Some([value, exp])
    users,      \* committed rows of table users
    userSeq,    \* the users.id sequence
    op,         \* the calls in flight, one per process
    last,       \* the call that returned most recently (OTP runs) or in the
                \* step just taken (token runs), with what it returned
    overlap,    \* history: two calls have been in flight at the same time
    cur,        \* history: email -> the latest write under otp:<email>:
                \*   [otp: the code mailed for it, uses: session tokens minted for it]
    okCodes,    \* history: email -> the codes of the last two requests that returned True
    api_tokens, \* committed rows of table api_tokens
    tokSeq,     \* the api_tokens.id sequence
    hist,       \* history: plaintext -> [validated, revokedAt]
    issued,     \* history: the issuance that has just returned, if nothing
                \* has happened since
    api_usage_logs \* committed rows of table api_usage_logs, oldest first

durable == <<users, userSeq, api_usage_logs>>
otpHist == <<cur, okCodes>>
tokVars == <<api_tokens, tokSeq, hist, issued>>
vars == <<now, redis, users, userSeq, op, last, overlap, cur, okCodes,
          api_tokens, tokSeq, hist, issued, api_usage_logs>>

\* --------------------------------------------------------- security.py
\* a hash that gives its input back
hash_value_plain(value) == value

\* hashlib.sha256(value.encode()).hexdigest()
hash_value(value) == "sha256(" \o value \o ")"

\* jose.jwt: a token is its claims and the key that signed them; a claim that
\* is absent reads as None
JWT_SECRET_KEY == "your-secret-key"

jwt_encode(claims, key) == [claims |-> claims, key |-> key]

\* what jwt.decode raises at time t: JWTError for a signature made with
\* another key, its subclass ExpiredSignatureError for an exp before t
jwt_decode_error(token, key, t) ==
    IF token.key # key THEN "JWTError"
    ELSE IF token.claims.exp < t THEN "ExpiredSignatureError"
    ELSE "none"

create_access_token(data, t) ==
    jwt_encode([sub |-> data.sub, user_id |-> data.user_id, role |-> data.role,
                exp |-> t + ACCESS_TOKEN_EXPIRE_MINUTES * 60], JWT_SECRET_KEY)

\* ------------------------------------------------------ redis_service.py
NoTtl == 0 - 1

Entry(value, expire_seconds, t) ==
    [value |-> value, exp |-> IF expire_seconds = None THEN NoTtl ELSE t + expire_seconds[1]]

\* a store that never expires a key
Expire_never(store, t) == store

\* r.set(key, value, ex=expire_seconds): overwrites, with a fresh TTL or none
set_key_nx(store, key, value, expire_seconds, t) ==
    IF store[key] # None THEN store
    ELSE [store EXCEPT ![key] = Some(Entry(value, expire_seconds, t))]

set_key(store, key, value, expire_seconds, t) ==
    [store EXCEPT ![key] = Some(Entry(value, expire_seconds, t))]

get_key(store, key) == store[key]

delete_key_noop(store, key) == store

delete_key(store, key) == [store EXCEPT ![key] = None]

\* Redis drops a key once its TTL has elapsed
Expire(store, t) ==
    [k \in DOMAIN store |->
        IF store[k] # None /\ store[k][1].exp # NoTtl /\ store[k][1].exp <= t
        THEN None ELSE store[k]]

\* ------------------------------------------------------ otp_service.py
_get_otp_redis_key(email) == "otp:" \o email

OtpKeys == {_get_otp_redis_key(e) : e \in Emails}

OtpExpireSeconds == OTP_EXPIRE_MINUTES * 60

\* ------------------------------------------------------------- crud.py
get_user_by_email(rows, email) ==
    IF \E u \in rows : u.email = email
    THEN Some(CHOOSE u \in rows : u.email = email)
    ELSE None

get_user_by_id(rows, user_id) ==
    IF \E u \in rows : u.id = user_id
    THEN Some(CHOOSE u \in rows : u.id = user_id)
    ELSE None

\* schemas.ApiUsageLogCreate, without the fields that do not depend on the
\* outcome (method, path, caller address, user agent)
ApiUsageLogCreate(api_token_id, user_id, response_status_code, error_message) ==
    [api_token_id |-> api_token_id, user_id |-> user_id,
     response_status_code |-> response_status_code, error_message |-> error_message]

\* crud.create_api_usage_log: add and flush, in the session of the caller
create_api_usage_log(session, log_in) == Append(session, log_in)

\* ----------------------------------------------------------- session.py
\* get_db_session after the handler has returned: the rows flushed in the
\* session become rows of the table
session_commit(committed, session) == committed \o session

\* `async with AsyncSessionLocal()` left without a commit: close() rolls the
\* open transaction back
session_close(committed, session) == committed

\* a session whose flushed writes outlive the failure of the request
session_rollback_keep(committed, flushed) == flushed

\* get_db_session when the request raises (lines 28-30): of a table as it is
\* committed and as the session has flushed it, the committed one stays
session_rollback(committed, flushed) == committed

\* models.User defaults: role "user", is_active True
NewUser(id, email) == [id |-> id, email |-> email, role |-> "user", is_active |-> TRUE]

\* ------------------------------------------------------------ processes
\* locals of a call (email .. mailed, ret) and its history.  When it started:
\* pre, the entry under its key; saw, whether its code is the one mailed for
\* that entry ("match"), another one ("wrong"), or no entry was pending
\* ("nothing"); late, a session token had already been minted with its code
\* for the latest entry; afterWrong, its code matches and the call that
\* returned just before was a verify rejected for a wrong code on a pending
\* entry.  holds: the entry it read at get_key is still the latest write.
\* inTime, set when it returns: the TTL of pre had not elapsed by then.
\* cause: the branch on which a verify returned without a token.
Idle == [pc |-> "idle", kind |-> "none", email |-> "", otp |-> "", user |-> None,
         created |-> FALSE, stored |-> None, mailed |-> None,
         ret |-> [status |-> "none", jwt |-> None],
         pre |-> None, saw |-> "nothing", late |-> FALSE, holds |-> FALSE,
         afterWrong |-> FALSE, inTime |-> FALSE, cause |-> "none"]

Active(p) == op[p].pc # "idle"

Overlaps(p) == \E q \in Procs \ {p} : Active(q)

\* processes are interchangeable: a new call takes the lowest free one
Free(p) == ~Active(p) /\ \A q \in Procs : q < p => Active(q)

\* what is kept of a call once it has returned at time t: its inputs, its
\* result and its history
Returned(rec, t) ==
    [rec EXCEPT !.pc = "done", !.user = None, !.created = FALSE, !.stored = None,
                !.holds = FALSE, !.pre = None,
                !.inTime = (rec.pre # None /\ t < rec.pre[1].exp)]

\* the call of process p returns: its record, as it ends, becomes `last`
Finish(p, rec) ==
    /\ op' = [op EXCEPT ![p] = Idle]
    /\ last' = Returned(rec, now)

Fail == [status |-> "fail", jwt |-> None]
Ok(jwt) == [status |-> "ok", jwt |-> jwt]

InitOtp ==
    /\ now = 0
    /\ redis = [k \in OtpKeys |-> None]
    /\ users = {}
    /\ userSeq = 0
    /\ op = [p \in Procs |-> Idle]
    /\ last = Idle
    /\ overlap = FALSE
    /\ cur = [e \in Emails |-> [otp |-> "", uses |-> 0]]
    /\ okCodes = [e \in Emails |-> <<>>]
    /\ api_tokens = {}
    /\ tokSeq = 0
    /\ hist = <<>>
    /\ issued = None
    /\ api_usage_logs = <<>>

\* ---- request_otp_for_user (otp_service.py 23-58), behind request_otp_endpoint

\* crud.get_or_create_user, first half: the select by email
RStart(p, e) ==
    /\ Free(p)
    /\ UNCHANGED tokVars
    /\ overlap' = (overlap \/ Overlaps(p))
    /\ LET found == get_user_by_email(users, e) IN
       op' = [op EXCEPT ![p] =
                [Idle EXCEPT !.pc = IF found = None THEN "r_ins" ELSE "r_set",
                             !.kind = "request", !.email = e, !.user = found]]
    /\ UNCHANGED <<now, redis, durable, last, otpHist>>

\* crud.create_user: INSERT and flush.  The unique index on users.email makes
\* the insert wait for a concurrent uncommitted insert of the same email and
\* fail once that one has committed; the error is caught at line 56.
RIns(p) ==
    /\ op[p].pc = "r_ins"
    /\ UNCHANGED tokVars
    /\ ~ \E q \in Procs \ {p} : Active(q) /\ op[q].created /\ op[q].email = op[p].email
    /\ IF get_user_by_email(users, op[p].email) # None
       THEN /\ Finish(p, [op[p] EXCEPT !.ret = Fail])
            /\ UNCHANGED userSeq
       ELSE /\ userSeq < MaxUserSeq
            /\ userSeq' = userSeq + 1
            /\ op' = [op EXCEPT ![p].pc = "r_set", ![p].created = TRUE,
                                ![p].user = Some(NewUser(userSeq + 1, op[p].email))]
            /\ UNCHANGED last
    /\ UNCHANGED <<now, redis, users, api_usage_logs, overlap, otpHist>>

\* the last two of a log
LastTwo(log) == IF Len(log) <= 2 THEN log ELSE SubSeq(log, Len(log) - 1, Len(log))

\* generate_otp_code, hash_value, set_key (lines 38-44)
RSet(p) ==
    /\ op[p].pc = "r_set"
    /\ UNCHANGED tokVars
    /\ \E plain_otp \in OtpCodes :
        /\ redis' = set_key(redis, _get_otp_redis_key(op[p].email), hash_value(plain_otp),
                            Some(OtpExpireSeconds), now)
        /\ op' = [q \in Procs |->
                    IF q = p THEN [op[p] EXCEPT !.pc = "r_mail", !.otp = plain_otp]
                    ELSE IF op[q].email = op[p].email THEN [op[q] EXCEPT !.holds = FALSE]
                    ELSE op[q]]
        /\ cur' = [cur EXCEPT ![op[p].email] = [otp |-> plain_otp, uses |-> 0]]
    /\ UNCHANGED <<now, durable, last, overlap, okCodes>>

\* if email_sent / else (lines 47-54)
AfterDispatch_ignore(email_sent) == "r_commit"

AfterDispatch(email_sent) == IF email_sent THEN "r_commit" ELSE "r_del"

\* email_service.send_otp_email returns True or False (lines 46-47)
RMail(p) ==
    /\ op[p].pc = "r_mail"
    /\ UNCHANGED tokVars
    /\ \E email_sent \in BOOLEAN :
        op' = [op EXCEPT ![p].pc = AfterDispatch(email_sent),
                         ![p].mailed = Some(email_sent)]
    /\ UNCHANGED <<now, redis, durable, last, overlap, otpHist>>

\* the clean-up after a failed dispatch (lines 48-51); the endpoint then raises
\* and get_db_session rolls the session back
RDel(p) ==
    /\ op[p].pc = "r_del"
    /\ UNCHANGED tokVars
    /\ redis' = delete_key(redis, _get_otp_redis_key(op[p].email))
    /\ users' = session_rollback(users, IF op[p].created THEN users \cup {op[p].user[1]}
                                        ELSE users)
    /\ Finish(p, [op[p] EXCEPT !.ret = Fail])
    /\ UNCHANGED <<now, userSeq, api_usage_logs, overlap, otpHist>>

\* return True (line 54) and the commit of get_db_session (session.py 27)
RCommit(p) ==
    /\ op[p].pc = "r_commit"
    /\ UNCHANGED tokVars
    /\ users' = IF op[p].created THEN users \cup {op[p].user[1]} ELSE users
    /\ Finish(p, [op[p] EXCEPT !.ret = Ok(None)])
    /\ okCodes' = [okCodes EXCEPT ![op[p].email] = LastTwo(Append(@, op[p].otp))]
    /\ UNCHANGED <<now, redis, userSeq, api_usage_logs, overlap, cur>>

\* ---- verify_otp_and_generate_jwt (otp_service.py 60-105)

\* rec is a returned verify for e that was rejected although an entry was
\* pending when it started: it presented a wrong code
WrongOnPending(rec, e) ==
    /\ rec.kind = "verify" /\ rec.email = e
    /\ rec.saw = "wrong" /\ rec.ret.status = "fail"

\* crud.get_user_by_email (lines 70-73)
VStart(p, e, otp) ==
    /\ Free(p)
    /\ UNCHANGED tokVars
    /\ overlap' = (overlap \/ Overlaps(p))
    /\ LET user == get_user_by_email(users, e)
           pre == get_key(redis, _get_otp_redis_key(e))
           call == [Idle EXCEPT !.pc = "v_get", !.kind = "verify", !.email = e,
                                !.otp = otp, !.user = user, !.pre = pre,
                                !.saw = IF pre = None THEN "nothing"
                                        ELSE IF cur[e].otp = otp THEN "match"
                                        ELSE "wrong",
                                !.late = (cur[e].uses > 0 /\ cur[e].otp = otp),
                                !.afterWrong = (pre # None /\ cur[e].otp = otp
                                                /\ WrongOnPending(last, e))]
       IN  IF user = None
           THEN /\ last' = Returned([call EXCEPT !.ret = Fail,
                                                  !.cause = "unknown_email"], now)
                /\ UNCHANGED op
           ELSE /\ op' = [op EXCEPT ![p] = call]
                /\ UNCHANGED last
    /\ UNCHANGED <<now, redis, durable, otpHist>>

\* what a rejected attempt does to the store: nothing (lines 80-87)
RejectedAttempt_delete(store, key) == delete_key(store, key)

RejectedAttempt(store, key) == store

\* get_key and the two comparisons (lines 75-87)
VGet(p) ==
    /\ op[p].pc = "v_get"
    /\ UNCHANGED tokVars
    /\ LET hashed_otp_to_verify == hash_value(op[p].otp)
           redis_key == _get_otp_redis_key(op[p].email)
           stored_hashed_otp == get_key(redis, redis_key)
       IN  IF stored_hashed_otp = None \/ stored_hashed_otp[1].value # hashed_otp_to_verify
           THEN /\ Finish(p, [op[p] EXCEPT !.ret = Fail,
                                !.cause = IF stored_hashed_otp = None THEN "no_otp"
                                          ELSE "wrong_code"])
                /\ redis' = RejectedAttempt(redis, redis_key)
           ELSE /\ op' = [op EXCEPT ![p].pc = "v_del", ![p].stored = stored_hashed_otp,
                                    ![p].holds = TRUE]
                /\ UNCHANGED <<redis, last>>
    /\ UNCHANGED <<now, durable, overlap, otpHist>>

\* delete_key, then create_access_token and return (lines 89-101)
VDel(p) ==
    /\ op[p].pc = "v_del"
    /\ UNCHANGED tokVars
    /\ redis' = delete_key(redis, _get_otp_redis_key(op[p].email))
    /\ LET user == op[p].user[1]
           token_data == [sub |-> Some(user.email), user_id |-> Some(user.id),
                          role |-> Some(user.role)]
       IN  Finish(p, [op[p] EXCEPT !.ret = Ok(Some(create_access_token(token_data, now)))])
    /\ cur' = [cur EXCEPT ![op[p].email].uses = IF op[p].holds THEN @ + 1 ELSE @]
    /\ UNCHANGED <<now, durable, overlap, okCodes>>

\* what the except of verify_otp_and_generate_jwt returns (lines 103-105)
verify_except_raise == [status |-> "error", jwt |-> None]

verify_except == Fail

\* get_key raises (Redis is not reachable): caught at line 103
VGetRaises(p) ==
    /\ op[p].pc = "v_get"
    /\ UNCHANGED tokVars
    /\ Finish(p, [op[p] EXCEPT !.ret = verify_except, !.cause = "store_error"])
    /\ UNCHANGED <<now, redis, durable, overlap, otpHist>>

\* delete_key raises after the hashes matched: caught at line 103, no token
VDelRaises(p) ==
    /\ op[p].pc = "v_del"
    /\ UNCHANGED tokVars
    /\ Finish(p, [op[p] EXCEPT !.ret = verify_except, !.cause = "store_error"])
    /\ UNCHANGED <<now, redis, durable, overlap, otpHist>>

\* verify_otp_endpoint (auth.py 28-43): the response made of what the service
\* returned; an exception that leaves the service would be a 500
VERIFY_FAILURE_DETAIL == "Invalid OTP, email, or OTP has expired. Please try again."

verify_otp_endpoint(jwt_token) ==
    IF jwt_token.status = "ok"
    THEN [status_code |-> 200, detail |-> "", access_token |-> jwt_token.jwt]
    ELSE IF jwt_token.status = "fail"
    THEN [status_code |-> 400, detail |-> VERIFY_FAILURE_DETAIL, access_token |-> None]
    ELSE [status_code |-> 500, detail |-> "Internal Server Error", access_token |-> None]

\* OtpVerify.otp is any string: codes that are too short, too long, not numeric
MalformedCodes == {"123", "123456", "abcde"}

\* ---- the clock; Redis expires keys natively
OtpTickStep == OtpExpireSeconds \div 2

TickOtp ==
    /\ now < MaxTicks * OtpTickStep
    /\ UNCHANGED tokVars
    /\ now' = now + OtpTickStep
    /\ redis' = Expire(redis, now + OtpTickStep)
    /\ UNCHANGED <<durable, op, last, overlap, otpHist>>

NextOtp ==
    \/ \E p \in Procs, e \in Emails : RStart(p, e)
    \/ \E p \in Procs : RIns(p)
    \/ \E p \in Procs : RSet(p)
    \/ \E p \in Procs : RMail(p)
    \/ \E p \in Procs : RDel(p)
    \/ \E p \in Procs : RCommit(p)
    \/ \E p \in Procs, e \in Emails, otp \in OtpCodes : VStart(p, e, otp)
    \/ \E p \in Procs : VGet(p)
    \/ \E p \in Procs : VDel(p)
    \/ TickOtp

SpecOtp == InitOtp /\ [][NextOtp]_vars

\* ---- one client, one request at a time, while time passes: the clock is not
\* stopped by anything the handlers do
NextExpiry ==
    \/ \E e \in Emails : RStart(1, e)
    \/ RIns(1)
    \/ RSet(1)
    \/ RMail(1)
    \/ RDel(1)
    \/ RCommit(1)
    \/ \E e \in Emails, otp \in OtpCodes : VStart(1, e, otp)
    \/ VGet(1)
    \/ VDel(1)
    \/ TickOtp

SpecExpiry == InitOtp /\ [][NextExpiry]_vars /\ WF_vars(TickOtp)

\* ------------------------------------------------------------ API tokens
\* (api_token_service.py, dependencies.py, endpoints/tokens.py, middleware.py)
API_TOKEN_PREFIX == "sk_live_"
API_TOKEN_PREVIEW_RANDOM_CHARS == 4

\* the i-th string drawn by secrets.token_urlsafe, which does not repeat
token_urlsafe(i) == ToString(i) \o "aBcDeFgH"

generate_secure_api_token_string(i) == API_TOKEN_PREFIX \o token_urlsafe(i)

\* the prefix, the first characters of the random part and "..."; a Python
\* slice stops at the end of the string
generate_token_preview(plain_token) ==
    LET n == Len(API_TOKEN_PREFIX) + API_TOKEN_PREVIEW_RANDOM_CHARS
    IN  SubSeq(plain_token, 1, IF n <= Len(plain_token) THEN n ELSE Len(plain_token))
            \o "..."

Plaintexts == {generate_secure_api_token_string(i) : i \in 1..MaxTokens}

get_api_token_redis_key(hashed_token) == "apitoken:" \o hashed_token

ApiTokenKeys == {get_api_token_redis_key(hash_value(pl)) : pl \in Plaintexts}

\* the accounts, committed before the first token request: the first one
\* requests tokens, the second one acts on tokens that are not its own
Owners == {1, 2}
Issuers == {1}

\* ---- datetime: seconds since the epoch, offset-naive or offset-aware (UTC)
Naive(t) == [t |-> t, aware |-> FALSE]
Aware(t) == [t |-> t, aware |-> TRUE]

\* d.replace(tzinfo=timezone.utc) if d.tzinfo is None else d
replace_tzinfo_utc(d) == Aware(d.t)

\* datetime.isoformat / datetime.fromisoformat: the offset is written only for
\* an aware datetime, and read back only if written
isoformat(d) == [iso |-> d.t, offset |-> IF d.aware THEN "+00:00" ELSE ""]
fromisoformat(str) == [t |-> str.iso, aware |-> str.offset # ""]

\* datetime.fromisoformat raises ValueError for a string that is not a timestamp
ValueError(str) == str.offset \notin {"", "+00:00"}

\* a string that is not a timestamp
NotATimestamp == [iso |-> 0, offset |-> "?"]

\* comparing or subtracting an offset-naive and an offset-aware datetime raises
TypeError(a, b) == a.aware # b.aware

\* json.dumps / json.loads of the cached dict; a string that is not JSON makes
\* json.loads raise JSONDecodeError
json_dumps(data) == [json |-> data, wellformed |-> TRUE]
json_loads(str) == str.json
JSONDecodeError(str) == ~str.wellformed

\* a cached string that is not JSON
Garbage ==
    [json |-> [user_id |-> 0, token_id |-> 0, is_revoked |-> FALSE,
               expires_at_iso |-> None],
     wellformed |-> FALSE]

Min(a, b) == IF a <= b THEN a ELSE b

CACHE_EXPIRY_SECONDS == 3600
EXPIRED_CACHE_SECONDS == 60

\* ---- rows of table api_tokens (models.ApiToken); expires_at is a DateTime
\* column without time zone: what is read back is offset-naive
ApiTokenRow(id, user_id, hashed_token, token_preview, expires_at) ==
    [id |-> id, user_id |-> user_id, hashed_token |-> hashed_token,
     token_preview |-> token_preview, expires_at |-> expires_at,
     is_revoked |-> FALSE, last_used_at |-> None]

\* crud.get_api_token_by_hashed_token
get_api_token_by_hashed_token(rows, hashed_token) ==
    IF \E r \in rows : r.hashed_token = hashed_token
    THEN Some(CHOOSE r \in rows : r.hashed_token = hashed_token)
    ELSE None

\* a lookup by id that is not scoped to the user
get_api_token_by_id(rows, token_id, user_id) ==
    IF \E r \in rows : r.id = token_id
    THEN Some(CHOOSE r \in rows : r.id = token_id)
    ELSE None

\* crud.get_api_token_by_id_and_user_id
get_api_token_by_id_and_user_id(rows, token_id, user_id) ==
    IF \E r \in rows : r.id = token_id /\ r.user_id = user_id
    THEN Some(CHOOSE r \in rows : r.id = token_id /\ r.user_id = user_id)
    ELSE None

\* crud.revoke_api_token
revoke_api_token(api_token) ==
    IF ~api_token.is_revoked THEN [api_token EXCEPT !.is_revoked = TRUE] ELSE api_token

\* session.commit() of an UPDATE of row
CommitRow(rows, row) == {r \in rows : r.id # row.id} \cup {row}

\* ---- token calls
TNoRet == [status |-> "none", user_id |-> 0, token_id |-> 0, api_token |-> ""]

\* locals of a call and its history.  When a validate started: validated, a
\* validate of the plaintext had succeeded; revoked, whether a revoke of its
\* token had returned ("done"), and that for the cache ceiling or longer
\* ("aged"), or not ("no"); missExpired, the cache held no entry under its key and
\* the committed row had an expires_at in the past; fresh, the issuance of the
\* plaintext had just returned, and nothing but this call has happened since
\* its cache write (in an issuance, fresh: nothing has since that write);
\* afterMiss, the revoke of its token had returned having found no cache entry.
\* In a revoke, afterMiss: it found no cache entry.  corrupt: the validate found
\* a cached string that is not JSON, and the cache has not been garbled again
\* since.  fault: what failed in an issuance, the INSERT ("persist"), the
\* cache write ("set") or the commit ("commit").  seen: the snapshot a validate resolved, the tier it
\* came from ("cache" or "db") and the time at which it was last evaluated
TIdle == [pc |-> "idle", kind |-> "none", plain |-> "", owner |-> 0, token_id |-> 0,
          row |-> None, data |-> None, ttl |-> None, ret |-> TNoRet,
          validated |-> FALSE, revoked |-> "no", missExpired |-> FALSE,
          fresh |-> FALSE, afterMiss |-> FALSE, corrupt |-> FALSE,
          fault |-> "none", seen |-> None]

\* the snapshot a validate has resolved
Seen(data, tier, t) == Some([data |-> data, tier |-> tier, at |-> t])

TReturned(rec) == [rec EXCEPT !.pc = "done", !.row = None, !.data = None, !.ttl = None]

\* `last` in the token runs: the call that returned in the step just taken, if
\* one did
TFinish(p, rec) ==
    /\ op' = [op EXCEPT ![p] = TIdle]
    /\ last' = TReturned(rec)

TRet(status) == [TNoRet EXCEPT !.status = status]

\* the plaintext whose hash is hashed_token
PlainOf(hashed_token) == CHOOSE pl \in Plaintexts : hash_value(pl) = hashed_token

\* the clock of the token runs advances by the cache ceiling
TokTickStep == CACHE_EXPIRY_SECONDS

\* ApiTokenCreate.expires_at as a client can send it at time t: absent, already
\* elapsed, or in the future (one cache ceiling away, or two), without or with
\* a UTC offset
ExpiryInputs(t) ==
    {None, Some(Naive(t)), Some(Naive(t + TokTickStep)), Some(Aware(t + TokTickStep)),
     Some(Naive(t + 2 * TokTickStep))}

InitTok ==
    /\ now = 0
    /\ redis = [k \in OtpKeys \cup ApiTokenKeys |-> None]
    /\ users = {NewUser(o, "u" \o ToString(o) \o "@x.com") : o \in Owners}
    /\ userSeq = Cardinality(Owners)
    /\ op = [p \in Procs |-> TIdle]
    /\ last = TIdle
    /\ overlap = FALSE
    /\ cur = [e \in Emails |-> [otp |-> "", uses |-> 0]]
    /\ okCodes = [e \in Emails |-> <<>>]
    /\ api_tokens = {}
    /\ tokSeq = 0
    /\ hist = [pl \in Plaintexts |-> [validated |-> FALSE, revokedAt |-> None,
                                      onMiss |-> FALSE]]
    /\ issued = None
    /\ api_usage_logs = <<>>

\* ---- create_user_api_token / create_new_api_token (api_token_service.py 33-100)

\* generate, hash, crud.create_api_token (lines 42-57).  The column takes no
\* time zone: an offset-aware expires_at is refused by the driver or stored
\* without its offset; the refresh reads an offset-naive value back.
IssueFlush(p, owner, expires_at) ==
    /\ Free(p)
    /\ tokSeq < MaxTokens
    /\ overlap' = (overlap \/ Overlaps(p))
    /\ issued' = None
    /\ LET plain_api_token == generate_secure_api_token_string(tokSeq + 1)
           call == [TIdle EXCEPT !.kind = "issue", !.plain = plain_api_token,
                                 !.owner = owner]
           offset == expires_at # None /\ expires_at[1].aware
       IN  \E accepted \in IF offset THEN BOOLEAN ELSE {TRUE} :
            IF ~accepted
            THEN \* caught at line 97: None, and the endpoint's 500
                 /\ last' = TReturned([call EXCEPT !.ret = TRet("Error"),
                                                   !.fault = "persist"])
                 /\ UNCHANGED <<op, tokSeq>>
            ELSE /\ tokSeq' = tokSeq + 1
                 /\ op' = [op EXCEPT ![p] =
                            [call EXCEPT !.pc = "i_cache", !.token_id = tokSeq + 1,
                                !.row = Some(ApiTokenRow(tokSeq + 1, owner,
                                            hash_value(plain_api_token),
                                            generate_token_preview(plain_api_token),
                                            IF expires_at = None THEN None
                                            ELSE Some(Naive(expires_at[1].t))))]]
                 /\ last' = TIdle
    /\ UNCHANGED <<now, redis, durable, otpHist, api_tokens, hist>>

\* the dict cached at issuance (lines 73-78)
token_cache_data_no_user(db_token, expires_at_iso) ==
    [user_id |-> 0, token_id |-> db_token.id,
     is_revoked |-> db_token.is_revoked, expires_at_iso |-> expires_at_iso]

token_cache_data(db_token, expires_at_iso) ==
    [user_id |-> db_token.user_id, token_id |-> db_token.id,
     is_revoked |-> db_token.is_revoked, expires_at_iso |-> expires_at_iso]

\* expire_seconds=ttl if ttl and ttl > 0 else None
PositiveOrNone(ttl) == IF ttl # None /\ ttl[1] > 0 THEN ttl ELSE None

\* the cache write (lines 59-85)
IssueCache(p) ==
    /\ op[p].pc = "i_cache"
    /\ LET db_token == op[p].row[1]
           redis_key == get_api_token_redis_key(db_token.hashed_token)
           aware_expires_at == replace_tzinfo_utc(db_token.expires_at[1])
           expires_at_iso == IF db_token.expires_at = None THEN None
                             ELSE Some(isoformat(aware_expires_at))
           redis_ttl_seconds ==
                IF db_token.expires_at # None /\ ~TypeError(aware_expires_at, Aware(now))
                   /\ aware_expires_at.t > now
                THEN Some(aware_expires_at.t - now) ELSE None
       IN  /\ redis' = set_key(redis, redis_key,
                               json_dumps(token_cache_data(db_token, expires_at_iso)),
                               PositiveOrNone(redis_ttl_seconds), now)
    /\ op' = [op EXCEPT ![p].pc = "i_commit", ![p].fresh = TRUE]
    /\ last' = TIdle
    /\ issued' = None
    /\ UNCHANGED <<now, durable, overlap, otpHist, api_tokens, tokSeq, hist>>

\* the return (lines 90-95) and the commit of get_db_session (session.py 27)
IssueCommit(p) ==
    /\ op[p].pc = "i_commit"
    /\ LET db_token == op[p].row[1]
       IN  /\ api_tokens' = api_tokens \cup {db_token}
           /\ TFinish(p, [op[p] EXCEPT !.ret = [TRet("ok") EXCEPT
                            !.user_id = db_token.user_id, !.token_id = db_token.id,
                            !.api_token = op[p].plain]])
    /\ issued' = IF op[p].fresh THEN Some(op[p].plain) ELSE None
    /\ UNCHANGED <<now, redis, durable, overlap, otpHist, tokSeq, hist>>

\* session.commit() raises (the database is not reachable): the except of
\* get_db_session rolls back and re-raises (session.py 28-30); nothing undoes
\* the cache write
IssueCommitRaises(p) ==
    /\ op[p].pc = "i_commit"
    /\ TFinish(p, [op[p] EXCEPT !.ret = TRet("Error"), !.fault = "commit"])
    /\ issued' = None
    /\ api_tokens' = session_rollback(api_tokens, api_tokens \cup {op[p].row[1]})
    /\ UNCHANGED <<now, redis, durable, overlap, otpHist, tokSeq, hist>>

\* set_redis_key raises (Redis is not reachable): the except at line 97 returns
\* None, the endpoint raises its 500 (tokens.py 31-35) and get_db_session
\* rolls the INSERT back
IssueCacheRaises(p) ==
    /\ op[p].pc = "i_cache"
    /\ TFinish(p, [op[p] EXCEPT !.ret = TRet("Error"), !.fault = "set"])
    /\ issued' = None
    /\ api_tokens' = session_rollback(api_tokens, api_tokens \cup {op[p].row[1]})
    /\ UNCHANGED <<now, redis, durable, overlap, otpHist, tokSeq, hist>>

\* ---- validate_api_key (dependencies.py 80-186)

\* the same checks with an expiry that has to lie before the current time
Verdict_before(data, t) ==
    IF data.is_revoked THEN "Revoked"
    ELSE IF data.expires_at_iso = None THEN "ok"
    ELSE IF ValueError(data.expires_at_iso[1]) THEN "Malformed"
    ELSE LET aware_expires_at == fromisoformat(data.expires_at_iso[1]) IN
         IF TypeError(aware_expires_at, Aware(t)) THEN "Error"
         ELSE IF aware_expires_at.t < t THEN "Expired"
         ELSE "ok"

\* the checks on token_data_to_process (lines 156-181)
Verdict(data, t) ==
    IF data.is_revoked THEN "Revoked"
    ELSE IF data.expires_at_iso = None THEN "ok"
    ELSE IF ValueError(data.expires_at_iso[1]) THEN "Malformed"
    ELSE LET aware_expires_at == fromisoformat(data.expires_at_iso[1]) IN
         IF TypeError(aware_expires_at, Aware(t)) THEN "Error"
         ELSE IF aware_expires_at.t <= t THEN "Expired"
         ELSE "ok"

\* public_ping (public_api_proxy.py 31-61), once validate_api_key has returned
\* api_key_data: the usage log it adds to the session of the request
public_ping(token_id, user_id) ==
    create_api_usage_log(<<>>, ApiUsageLogCreate(Some(token_id), Some(user_id), 200, None))

\* lines 156-186: raise, return validated_data, or go on to delete the key of
\* an expired token or of a snapshot whose expires_at_iso does not parse.  A raise ends the request without a usage log; after a
\* return public_ping adds its log and get_db_session commits
ValidateConclude(p, call, data, tier) ==
    LET verdict == Verdict(data, now)
        rec == [call EXCEPT !.seen = Seen(data, tier, now)]
    IN
    IF verdict \in {"Expired", "Malformed"}
    THEN /\ op' = [op EXCEPT ![p] = [rec EXCEPT !.pc = IF verdict = "Expired"
                                                       THEN "v_exp" ELSE "v_fmt"]]
         /\ last' = TIdle
         /\ UNCHANGED <<hist, api_usage_logs>>
    ELSE /\ api_usage_logs' = IF verdict = "ok"
                              THEN session_commit(api_usage_logs,
                                                  public_ping(data.token_id, data.user_id))
                              ELSE api_usage_logs
         /\ TFinish(p, [rec EXCEPT !.ret =
                    IF verdict = "ok"
                    THEN [TRet("ok") EXCEPT !.user_id = data.user_id,
                                            !.token_id = data.token_id]
                    ELSE TRet(verdict)])
         /\ hist' = IF verdict = "ok" THEN [hist EXCEPT ![rec.plain].validated = TRUE]
                    ELSE hist

\* the committed row of a plaintext has an expires_at before t
DurablyExpired(pl, t) ==
    \E r \in api_tokens : /\ r.hashed_token = hash_value(pl)
                          /\ r.expires_at # None /\ r.expires_at[1].t < t

\* at time t, has a revoke of the token of pl returned, and for how long
RevokedFor(pl, t) ==
    IF hist[pl].revokedAt = None THEN "no"
    ELSE IF hist[pl].revokedAt[1] + CACHE_EXPIRY_SECONDS <= t THEN "aged"
    ELSE "done"

\* hash, get_redis_key, json.loads (lines 101-115)
ValidateCache(p, pl) ==
    /\ Free(p)
    /\ Len(api_usage_logs) < MaxLogs
    /\ overlap' = (overlap \/ Overlaps(p))
    /\ issued' = None
    /\ LET redis_key_for_token == get_api_token_redis_key(hash_value(pl))
           cached_data_str == get_key(redis, redis_key_for_token)
           call == [TIdle EXCEPT !.pc = "v_db", !.kind = "validate", !.plain = pl,
                        !.validated = hist[pl].validated,
                        !.revoked = RevokedFor(pl, now),
                        !.missExpired = (cached_data_str = None /\ DurablyExpired(pl, now)),
                        !.fresh = (issued = Some(pl)),
                        !.afterMiss = hist[pl].onMiss]
       IN  IF cached_data_str = None
           THEN /\ op' = [op EXCEPT ![p] = call]
                /\ last' = TIdle
                /\ UNCHANGED <<hist, api_usage_logs>>
           ELSE IF JSONDecodeError(cached_data_str[1].value)
           THEN /\ op' = [op EXCEPT ![p] = [call EXCEPT !.pc = "v_bad",
                                                        !.corrupt = TRUE]]
                /\ last' = TIdle
                /\ UNCHANGED <<hist, api_usage_logs>>
           ELSE ValidateConclude(p, call, json_loads(cached_data_str[1].value), "cache")
    /\ UNCHANGED <<now, redis, users, userSeq, otpHist, api_tokens, tokSeq>>

\* what the except of json.loads does with the key (line 113)
OnDecodeError_keep(store, key) == store

OnDecodeError(store, key) == delete_key(store, key)

\* delete_redis_key of a corrupted value, then on to the lookup in the
\* database (lines 111-115)
ValidateDropCorrupt(p) ==
    /\ op[p].pc = "v_bad"
    /\ issued' = None
    /\ redis' = OnDecodeError(redis, get_api_token_redis_key(hash_value(op[p].plain)))
    /\ op' = [op EXCEPT ![p].pc = "v_db"]
    /\ last' = TIdle
    /\ UNCHANGED <<now, durable, overlap, otpHist, api_tokens, tokSeq, hist>>

\* the dict built from the row (lines 126-133)
token_data_for_cache(token_db_record) ==
    [token_id |-> token_db_record.id, user_id |-> token_db_record.user_id,
     is_revoked |-> token_db_record.is_revoked,
     expires_at_iso |-> IF token_db_record.expires_at = None THEN None
                        ELSE Some(isoformat(token_db_record.expires_at[1]))]

\* the lookup in the database and what is prepared for the cache (lines 117-146)
ValidateDb(p) ==
    /\ op[p].pc = "v_db"
    /\ issued' = None
    /\ LET token_db_record == get_api_token_by_hashed_token(api_tokens, hash_value(op[p].plain))
       IN  IF token_db_record = None
           THEN TFinish(p, [op[p] EXCEPT !.ret = TRet("Invalid")])
           ELSE LET rec == token_db_record[1]
                    cache_expiry_seconds ==
                        IF rec.expires_at = None THEN CACHE_EXPIRY_SECONDS
                        ELSE IF rec.expires_at[1].t > now
                             THEN Min(CACHE_EXPIRY_SECONDS, rec.expires_at[1].t - now)
                             ELSE EXPIRED_CACHE_SECONDS
                IN  IF rec.expires_at # None /\ TypeError(rec.expires_at[1], Aware(now))
                    THEN TFinish(p, [op[p] EXCEPT !.ret = TRet("Error"),
                                        !.seen = Seen(token_data_for_cache(rec), "db", now)])
                    ELSE /\ op' = [op EXCEPT ![p].pc = "v_set",
                                             ![p].data = Some(token_data_for_cache(rec)),
                                             ![p].ttl = Some(cache_expiry_seconds)]
                         /\ last' = TIdle
    /\ UNCHANGED <<now, redis, durable, overlap, otpHist, api_tokens, tokSeq, hist>>

\* the write-back to the cache and the checks (lines 147-186)
ValidateSet(p) ==
    /\ op[p].pc = "v_set"
    /\ issued' = None
    /\ redis' = IF op[p].ttl[1] > 0
                THEN set_key(redis, get_api_token_redis_key(hash_value(op[p].plain)),
                             json_dumps(op[p].data[1]), op[p].ttl, now)
                ELSE redis
    /\ ValidateConclude(p, op[p], op[p].data[1], "db")
    /\ UNCHANGED <<now, users, userSeq, overlap, otpHist, api_tokens, tokSeq>>

\* delete_redis_key and the 403 of an expired token (lines 168-174)
ValidateDelete(p) ==
    /\ op[p].pc = "v_exp"
    /\ issued' = None
    /\ redis' = delete_key(redis, get_api_token_redis_key(hash_value(op[p].plain)))
    /\ TFinish(p, [op[p] EXCEPT !.ret = TRet("Expired")])
    /\ UNCHANGED <<now, durable, overlap, otpHist, api_tokens, tokSeq, hist>>

\* ---- revoke_user_api_token (endpoints/tokens.py 59-134)

\* what the endpoint makes of the row it found (lines 76-80): an already
\* revoked row is returned as it is, another one goes through crud.revoke_api_token
revoke_row_toggle(db_token) == [db_token EXCEPT !.is_revoked = ~@]

revoke_row(db_token) ==
    IF db_token.is_revoked THEN db_token ELSE revoke_api_token(db_token)

\* the revoke of process p returns rec and get_db_session commits its session
RevokeReturn(p, rec, row) ==
    /\ api_tokens' = CommitRow(api_tokens, row)
    /\ hist' = [hist EXCEPT ![PlainOf(row.hashed_token)].revokedAt =
                                    IF @ = None THEN Some(now) ELSE @,
                             ![PlainOf(row.hashed_token)].onMiss = rec.afterMiss]
    /\ TFinish(p, [rec EXCEPT !.ret = [TRet("ok") EXCEPT !.user_id = row.user_id,
                                                         !.token_id = row.id]])

\* the select scoped to the owner, the 404, the early return, and the UPDATE
\* flushed by crud.revoke_api_token (lines 70-80); the UPDATE holds the row
\* lock until the session ends
RevokeFlush(p, token_id, owner) ==
    /\ Free(p)
    /\ ~ \E q \in Procs : Active(q) /\ op[q].kind = "revoke" /\ op[q].token_id = token_id
    /\ overlap' = (overlap \/ Overlaps(p))
    /\ issued' = None
    /\ LET db_token == get_api_token_by_id_and_user_id(api_tokens, token_id, owner)
           call == [TIdle EXCEPT !.kind = "revoke", !.token_id = token_id, !.owner = owner,
                        !.revoked = IF db_token = None THEN "no"
                                    ELSE RevokedFor(PlainOf(db_token[1].hashed_token), now)]
       IN  IF db_token = None
           THEN /\ last' = TReturned([call EXCEPT !.ret = TRet("NotFound")])
                /\ UNCHANGED <<op, api_tokens, hist>>
           ELSE IF db_token[1].is_revoked
           THEN /\ api_tokens' = CommitRow(api_tokens, revoke_row(db_token[1]))
                /\ last' = TReturned([call EXCEPT !.ret = [TRet("ok") EXCEPT
                                !.user_id = owner, !.token_id = token_id]])
                /\ UNCHANGED <<op, hist>>
           ELSE /\ op' = [op EXCEPT ![p] = [call EXCEPT !.pc = "k_get",
                                !.plain = PlainOf(db_token[1].hashed_token),
                                !.row = Some(revoke_row(db_token[1]))]]
                /\ last' = TIdle
                /\ UNCHANGED <<api_tokens, hist>>
    /\ UNCHANGED <<now, redis, durable, otpHist, tokSeq>>

\* get_redis_key and what to do with the cached snapshot (lines 83-103, 118-122)
RevokeGet(p) ==
    /\ op[p].pc = "k_get"
    /\ issued' = None
    /\ LET updated_token_db == op[p].row[1]
           redis_key == get_api_token_redis_key(updated_token_db.hashed_token)
           cached_data_str == get_key(redis, redis_key)
       IN  IF cached_data_str = None
           THEN RevokeReturn(p, [op[p] EXCEPT !.afterMiss = TRUE], updated_token_db)
           ELSE IF \/ JSONDecodeError(cached_data_str[1].value)
                   \/ LET iso == json_loads(cached_data_str[1].value).expires_at_iso
                      IN  iso # None /\ ValueError(iso[1])
           THEN \* lines 111-117: delete the key, then return
                /\ op' = [op EXCEPT ![p].pc = "k_del"]
                /\ last' = TIdle
                /\ UNCHANGED <<api_tokens, hist>>
           ELSE LET token_cache_data_ == [json_loads(cached_data_str[1].value)
                                            EXCEPT !.is_revoked = TRUE]
                    iso == token_cache_data_.expires_at_iso
                    aware_expires_at == fromisoformat(iso[1])
                IN  IF iso # None /\ TypeError(aware_expires_at, Aware(now))
                    THEN \* the TypeError leaves the endpoint: rollback
                         /\ TFinish(p, [op[p] EXCEPT !.ret = TRet("Error")])
                         /\ api_tokens' = session_rollback(api_tokens,
                                            CommitRow(api_tokens, updated_token_db))
                         /\ UNCHANGED hist
                    ELSE /\ op' = [op EXCEPT
                                ![p].pc = IF iso # None /\ aware_expires_at.t <= now
                                          THEN "k_del" ELSE "k_set",
                                ![p].data = Some(token_cache_data_),
                                ![p].ttl = IF iso = None THEN None
                                           ELSE Some(aware_expires_at.t - now)]
                         /\ last' = TIdle
                         /\ UNCHANGED <<api_tokens, hist>>
    /\ UNCHANGED <<now, redis, durable, overlap, otpHist, tokSeq>>

\* set_redis_key of the revoked snapshot (lines 104-110), return and commit
RevokeSet(p) ==
    /\ op[p].pc = "k_set"
    /\ issued' = None
    /\ redis' = set_key(redis, get_api_token_redis_key(op[p].row[1].hashed_token),
                        json_dumps(op[p].data[1]), PositiveOrNone(op[p].ttl), now)
    /\ RevokeReturn(p, op[p], op[p].row[1])
    /\ UNCHANGED <<now, durable, overlap, otpHist, tokSeq>>

\* delete_redis_key of an expired token's snapshot (lines 97-100) or of a
\* corrupted value (lines 111-114), return and commit
RevokeDelete(p) ==
    /\ op[p].pc = "k_del"
    /\ issued' = None
    /\ redis' = delete_key(redis, get_api_token_redis_key(op[p].row[1].hashed_token))
    /\ RevokeReturn(p, op[p], op[p].row[1])
    /\ UNCHANGED <<now, durable, overlap, otpHist, tokSeq>>

\* get_redis_key (line 86), set_redis_key (104) or delete_redis_key (98, 114)
\* raises because Redis is not reachable: the handlers of 111-117 catch
\* JSONDecodeError and ValueError only, the exception leaves the endpoint and
\* get_db_session rolls the UPDATE back.  fault: the call that raised
RevokeCacheRaises(p) ==
    /\ op[p].pc \in {"k_get", "k_set", "k_del"}
    /\ issued' = None
    /\ api_tokens' = session_rollback(api_tokens, CommitRow(api_tokens, op[p].row[1]))
    /\ TFinish(p, [op[p] EXCEPT !.ret = TRet("Error"),
                                !.fault = IF op[p].pc = "k_get" THEN "get"
                                          ELSE IF op[p].pc = "k_set" THEN "set"
                                          ELSE "delete"])
    /\ UNCHANGED <<now, redis, durable, overlap, otpHist, tokSeq, hist>>

\* ---- ApiTokenValidationMiddleware.dispatch (middleware.py 17-137)

\* One request under /api/v1/public.  plain_token: the token of the headers, if
\* any.  call_next: the handler behind returns a response or raises.  fault:
\* "lookup", the select of the token raises; "lookup_and_log", so does the
\* flush of the log in the handler of that exception (lines 133-136).
\* The result: the status of the response, the usage logs flushed in the
\* session of the middleware, the last_used_at set on the row, whether the
\* select of the token was made, and whether call_next was invoked.
dispatch(plain_token, rows, userRows, t, call_next, fault) ==
    LET log_data == ApiUsageLogCreate(None, None, 500, None)
        Log(session, data, code, msg) ==
            create_api_usage_log(session, [data EXCEPT !.response_status_code = code,
                                                       !.error_message = msg])
        Reject(data, code, msg) ==
            [status_code |-> code, session |-> Log(<<>>, data, code, Some(msg)),
             last_used_at |-> None, looked_up |-> TRUE, called |-> FALSE]
    IN  IF plain_token = None \/ plain_token = Some("")
        THEN [Reject(log_data, 401, "API token not provided.") EXCEPT !.looked_up = FALSE]
        ELSE IF fault # "none"
        THEN [status_code |-> 500,
              session |-> IF fault = "lookup"
                          THEN Log(<<>>, log_data, 500, Some("Internal server error"))
                          ELSE <<>>,
              last_used_at |-> None, looked_up |-> TRUE, called |-> FALSE]
        ELSE LET db_token == get_api_token_by_hashed_token(rows, hash_value(plain_token[1]))
             IN  IF db_token = None
                 THEN Reject(log_data, 401, "Invalid API token (not found).")
                 ELSE
        LET tok == db_token[1]
            data == [log_data EXCEPT !.api_token_id = Some(tok.id),
                                     !.user_id = Some(tok.user_id)]
            current_user == get_user_by_id(userRows, tok.user_id)
            authenticated == Log(<<>>, data, 200, None)
        IN  IF tok.is_revoked
            THEN Reject(data, 403, "API token has been revoked.")
            ELSE IF tok.expires_at # None /\ tok.expires_at[1].t < t
            THEN Reject(data, 403, "API token has expired.")
            ELSE IF current_user = None \/ ~current_user[1].is_active
            THEN [Reject(data, 403, "User associated with API token is inactive or not found.")
                    EXCEPT !.last_used_at = Some(t)]
            ELSE IF call_next = "returns"
            THEN [status_code |-> 200, session |-> authenticated, last_used_at |-> Some(t),
                  looked_up |-> TRUE, called |-> TRUE]
            ELSE [status_code |-> 500,
                  session |-> Log(authenticated, data, 500, Some("Internal server error")),
                  last_used_at |-> Some(t), looked_up |-> TRUE, called |-> TRUE]

\* the headers Authorization and X-API-Key of a request: Authorization is a
\* scheme, a space and credentials
Bearer(token) == [scheme |-> "Bearer", credentials |-> token]
Basic(token) == [scheme |-> "Basic", credentials |-> token]

\* a token that was never issued
UnknownToken == "sk_live_unknown"

\* the first header of the two that is looked at (lines 43-46)
PreferredHeader_bearer(x_api_key_header, auth_header) ==
    IF auth_header # None /\ auth_header[1].scheme = "Bearer"
    THEN Some(auth_header[1].credentials)
    ELSE IF x_api_key_header # None /\ x_api_key_header[1] # "" THEN x_api_key_header
    ELSE None

\* lines 39-46: X-API-Key if it is there and not empty, else the credentials
\* of an Authorization header that starts with "Bearer "
PreferredHeader(x_api_key_header, auth_header) ==
    IF x_api_key_header # None /\ x_api_key_header[1] # "" THEN x_api_key_header
    ELSE IF auth_header # None /\ auth_header[1].scheme = "Bearer"
    THEN Some(auth_header[1].credentials)
    ELSE None

\* the request, from the headers to the response: the session of the
\* middleware is opened at line 38 and left without a commit
Middleware(x_api_key_header, auth_header, call_next, fault) ==
    /\ issued' = None
    /\ LET plain_token == PreferredHeader(x_api_key_header, auth_header)
           result == dispatch(plain_token, api_tokens, users, now, call_next, fault) IN
        /\ last' = [pc |-> "done", kind |-> "dispatch", plain |-> plain_token,
                    status_code |-> result.status_code, session |-> result.session,
                    x_api_key_header |-> x_api_key_header, auth_header |-> auth_header,
                    last_used_at |-> result.last_used_at,
                    looked_up |-> result.looked_up, called |-> result.called]
        /\ api_usage_logs' = session_close(api_usage_logs, result.session)
        /\ api_tokens' = session_close(api_tokens,
                            IF result.last_used_at = None THEN api_tokens
                            ELSE {IF r.hashed_token = hash_value(plain_token[1])
                                  THEN [r EXCEPT !.last_used_at = result.last_used_at]
                                  ELSE r : r \in api_tokens})
    /\ UNCHANGED <<now, redis, users, userSeq, op, overlap, otpHist, tokSeq, hist>>

\* column users.is_active (models.py 12) is set to false for a user: nothing in
\* the application does it, an administrator does in the database
UserDeactivate(id) ==
    /\ \E u \in users : u.id = id /\ u.is_active
    /\ users' = {IF u.id = id THEN [u EXCEPT !.is_active = FALSE] ELSE u : u \in users}
    /\ issued' = None
    /\ last' = TIdle
    /\ UNCHANGED <<now, redis, userSeq, api_usage_logs, op, overlap, otpHist,
                   api_tokens, tokSeq, hist>>

\* ---- the environment: the clock, Redis expiring keys, Redis losing a key
NotFresh(ops) ==
    [q \in Procs |-> IF ops[q].kind \in {"validate", "issue"}
                     THEN [ops[q] EXCEPT !.fresh = FALSE]
                     ELSE ops[q]]

TickTok ==
    /\ now < MaxTokTicks * TokTickStep
    /\ now' = now + TokTickStep
    /\ redis' = Expire(redis, now + TokTickStep)
    /\ op' = NotFresh(op)
    /\ issued' = None
    /\ last' = TIdle
    /\ UNCHANGED <<durable, overlap, otpHist, api_tokens, tokSeq, hist>>

\* an eviction or a restart of Redis drops the snapshot of a token
CacheEvict(k) ==
    /\ redis[k] # None
    /\ redis' = [redis EXCEPT ![k] = None]
    /\ op' = NotFresh(op)
    /\ issued' = None
    /\ last' = TIdle
    /\ UNCHANGED <<now, durable, overlap, otpHist, api_tokens, tokSeq, hist>>

NextTok ==
    \/ \E p \in Procs, owner \in Issuers : \E expires_at \in ExpiryInputs(now) :
            IssueFlush(p, owner, expires_at)
    \/ \E p \in Procs : IssueCache(p)
    \/ \E p \in Procs : IssueCommit(p)
    \/ \E p \in Procs, pl \in Plaintexts : ValidateCache(p, pl)
    \/ \E p \in Procs : ValidateDb(p)
    \/ \E p \in Procs : ValidateSet(p)
    \/ \E p \in Procs : ValidateDelete(p)
    \/ \E p \in Procs, token_id \in 1..MaxTokens, owner \in Owners :
            RevokeFlush(p, token_id, owner)
    \/ \E p \in Procs : RevokeGet(p)
    \/ \E p \in Procs : RevokeSet(p)
    \/ \E p \in Procs : RevokeDelete(p)
    \/ \E x_api_key_header \in {None} \cup {Some(pl) : pl \in Plaintexts},
          call_next \in {"returns", "raises"},
          fault \in {"none", "lookup", "lookup_and_log"} :
            Middleware(x_api_key_header, None, call_next, fault)
    \/ TickTok
    \/ \E k \in ApiTokenKeys : CacheEvict(k)

SpecTok == InitTok /\ [][NextTok]_vars

\* ---- the same calls with a cache that can fail: a value that is no longer
\* JSON, a write that raises
NotCorrupt(ops) ==
    [q \in Procs |-> IF ops[q].kind = "validate"
                     THEN [ops[q] EXCEPT !.fresh = FALSE, !.corrupt = FALSE]
                     ELSE IF ops[q].kind = "issue" THEN [ops[q] EXCEPT !.fresh = FALSE]
                     ELSE ops[q]]

CacheCorrupt(k) ==
    /\ redis[k] # None
    /\ redis[k][1].value # Garbage
    /\ redis' = [redis EXCEPT ![k] = Some([@[1] EXCEPT !.value = Garbage])]
    /\ op' = NotCorrupt(op)
    /\ issued' = None
    /\ last' = TIdle
    /\ UNCHANGED <<now, durable, overlap, otpHist, api_tokens, tokSeq, hist>>

NextFault ==
    \/ NextTok
    \/ \E p \in Procs : IssueCacheRaises(p)
    \/ \E p \in Procs : IssueCommitRaises(p)
    \/ \E p \in Procs : RevokeCacheRaises(p)
    \/ \E p \in Procs : ValidateDropCorrupt(p)
    \/ \E k \in ApiTokenKeys : CacheCorrupt(k)

SpecFault == InitTok /\ [][NextFault]_vars

\* ---- requests through the middleware, with either header, for tokens that
\* are issued and revoked one request at a time and for users that can be
\* deactivated
NextMw ==
    \/ \E owner \in Issuers : \E expires_at \in ExpiryInputs(now) :
            IssueFlush(1, owner, expires_at)
    \/ IssueCache(1)
    \/ IssueCommit(1)
    \/ \E token_id \in 1..MaxTokens, owner \in Owners : RevokeFlush(1, token_id, owner)
    \/ RevokeGet(1)
    \/ RevokeSet(1)
    \/ RevokeDelete(1)
    \/ \E id \in Owners : UserDeactivate(id)
    \/ \E x_api_key_header \in {None, Some(UnknownToken)} \cup {Some(pl) : pl \in Plaintexts},
          auth_header \in {None} \cup {Some(Bearer(pl)) : pl \in Plaintexts}
                                 \cup {Some(Basic(pl)) : pl \in Plaintexts},
          call_next \in {"returns", "raises"},
          fault \in {"none", "lookup", "lookup_and_log"} :
            Middleware(x_api_key_header, auth_header, call_next, fault)
    \/ TickTok

SpecMw == InitTok /\ [][NextMw]_vars

\* ---- the same calls with stores that can fail during validate_api_key: a
\* cached snapshot whose expires_at_iso is no longer a timestamp, a Redis call
\* or the database lookup that raises

\* delete_redis_key of a snapshot whose expires_at_iso does not parse, then
\* HTTPException 500 (lines 175-181).  fault "format"
ValidateDropMalformed(p) ==
    /\ op[p].pc = "v_fmt"
    /\ issued' = None
    /\ redis' = delete_key(redis, get_api_token_redis_key(hash_value(op[p].plain)))
    /\ TFinish(p, [op[p] EXCEPT !.ret = TRet("Error"), !.fault = "format"])
    /\ UNCHANGED <<now, durable, overlap, otpHist, api_tokens, tokSeq, hist>>

\* the cached snapshot of a token gets an expires_at_iso that is not a timestamp
CacheMalform(k) ==
    /\ redis[k] # None
    /\ ~JSONDecodeError(redis[k][1].value)
    /\ json_loads(redis[k][1].value).expires_at_iso # Some(NotATimestamp)
    /\ redis' = [redis EXCEPT ![k] =
                    Some([@[1] EXCEPT !.value.json.expires_at_iso = Some(NotATimestamp)])]
    /\ op' = NotCorrupt(op)
    /\ issued' = None
    /\ last' = TIdle
    /\ UNCHANGED <<now, durable, overlap, otpHist, api_tokens, tokSeq, hist>>

\* get_redis_key (line 104) raises: redis_service.get_key has no try, and
\* neither has validate_api_key around the call, so the request ends in a
\* 500.  fault "get"
ValidateGetRaises(p, pl) ==
    /\ Free(p)
    /\ overlap' = (overlap \/ Overlaps(p))
    /\ issued' = None
    /\ op' = op
    /\ last' = TReturned([TIdle EXCEPT !.kind = "validate", !.plain = pl,
                                       !.ret = TRet("Error"), !.fault = "get"])
    /\ UNCHANGED <<now, redis, durable, otpHist, api_tokens, tokSeq, hist>>

\* crud.get_api_token_by_hashed_token (line 119), set_redis_key (149) or
\* delete_redis_key (113, 170, 177) raises.  fault: the call that raised
ValidateStoreRaises(p) ==
    /\ op[p].pc \in {"v_db", "v_set", "v_exp", "v_bad", "v_fmt"}
    /\ issued' = None
    /\ TFinish(p, [op[p] EXCEPT !.ret = TRet("Error"),
                                !.fault = IF op[p].pc = "v_db" THEN "lookup"
                                          ELSE IF op[p].pc = "v_set" THEN "set"
                                          ELSE "delete"])
    /\ UNCHANGED <<now, redis, durable, overlap, otpHist, api_tokens, tokSeq, hist>>

NextStore ==
    \/ NextFault
    \/ \E p \in Procs : ValidateDropMalformed(p)
    \/ \E k \in ApiTokenKeys : CacheMalform(k)
    \/ \E p \in Procs, pl \in Plaintexts : ValidateGetRaises(p, pl)
    \/ \E p \in Procs : ValidateStoreRaises(p)

SpecStore == InitTok /\ [][NextStore]_vars

\* ---- one client, one request at a time: it logs in with an OTP and, once
\* its account is committed, issues, validates and revokes API tokens
InitSerial ==
    /\ now = 0
    /\ redis = [k \in OtpKeys \cup ApiTokenKeys |-> None]
    /\ users = {}
    /\ userSeq = 0
    /\ op = [p \in Procs |-> Idle]
    /\ last = Idle
    /\ overlap = FALSE
    /\ cur = [e \in Emails |-> [otp |-> "", uses |-> 0]]
    /\ okCodes = [e \in Emails |-> <<>>]
    /\ api_tokens = {}
    /\ tokSeq = 0
    /\ hist = [pl \in Plaintexts |-> [validated |-> FALSE, revokedAt |-> None,
                                      onMiss |-> FALSE]]
    /\ issued = None
    /\ api_usage_logs = <<>>

\* get_current_active_user: the caller of a token endpoint is a committed user
IsUser(owner) == \E u \in users : u.id = owner

NextSerial ==
    \/ \E e \in Emails : RStart(1, e)
    \/ RIns(1)
    \/ RSet(1)
    \/ RMail(1)
    \/ RDel(1)
    \/ RCommit(1)
    \/ \E e \in Emails, otp \in OtpCodes \cup MalformedCodes : VStart(1, e, otp)
    \/ VGet(1)
    \/ VGetRaises(1)
    \/ VDel(1)
    \/ VDelRaises(1)
    \/ \E owner \in Issuers : \E expires_at \in ExpiryInputs(now) :
            IsUser(owner) /\ IssueFlush(1, owner, expires_at)
    \/ IssueCache(1)
    \/ IssueCommit(1)
    \/ \E pl \in Plaintexts : ValidateCache(1, pl)
    \/ ValidateDb(1)
    \/ ValidateSet(1)
    \/ ValidateDelete(1)
    \/ \E token_id \in 1..MaxTokens, owner \in Issuers :
            IsUser(owner) /\ RevokeFlush(1, token_id, owner)
    \/ RevokeGet(1)
    \/ RevokeSet(1)
    \/ RevokeDelete(1)
    \/ \E k \in ApiTokenKeys : CacheEvict(k)

SpecSerial == InitSerial /\ [][NextSerial]_vars

\* ---- the endpoints behind get_db_session and the middleware, one request at
\* a time, the cache write of an issuance failing or not
NextTxn ==
    \/ NextSerial
    \/ IssueCacheRaises(1)
    \/ IssueCommitRaises(1)
    \/ \E x_api_key_header \in {None} \cup {Some(pl) : pl \in Plaintexts},
          call_next \in {"returns", "raises"},
          fault \in {"none", "lookup", "lookup_and_log"} :
            Middleware(x_api_key_header, None, call_next, fault)

SpecTxn == InitSerial /\ [][NextTxn]_vars

\* ---- get_current_user (dependencies.py 31-60) over verify_access_token
\* (security.py 31-51)
credentials_exception ==
    [status_code |-> 401, detail |-> "Could not validate credentials", user |-> None]

\* what is raised inside the try of verify_access_token at time t: what
\* jwt.decode raises, or the HTTPException of line 43 for a missing claim
verify_access_token_raises(token, t) ==
    LET error == jwt_decode_error(token, JWT_SECRET_KEY, t) IN
    IF error # "none" THEN error
    ELSE IF token.claims.sub = None \/ token.claims.user_id = None THEN "HTTPException"
    ELSE "none"

\* a handler that lets the cause show
on_verify_error_detail(raised, exception) == [exception EXCEPT !.detail = raised]

\* except JWTError / except Exception (lines 48-51): both raise
\* credentials_exception
on_verify_error(raised, exception) == exception

get_current_user(token, rows, t) ==
    LET raised == verify_access_token_raises(token, t) IN
    IF raised # "none"
    THEN [response |-> on_verify_error(raised, credentials_exception),
          cause |-> IF raised = "JWTError" THEN "bad_signature"
                    ELSE IF raised = "ExpiredSignatureError" THEN "expired"
                    ELSE "missing_claim"]
    ELSE LET user == get_user_by_id(rows, token.claims.user_id[1]) IN
         IF user = None
         THEN [response |-> credentials_exception, cause |-> "no_user"]
         ELSE [response |-> [status_code |-> 200, detail |-> "", user |-> user],
               cause |-> "none"]

\* the bearer tokens a caller can present: signed at time t with the key of
\* the service or with another one, with or without the sub and user_id
\* claims, for the account that exists or for one that does not
JwtInputs(t) ==
    {jwt_encode([sub |-> sub, user_id |-> user_id, role |-> Some("user"),
                 exp |-> t + ACCESS_TOKEN_EXPIRE_MINUTES * 60], key) :
        sub \in {None, Some("a@x.com")}, user_id \in {None, Some(1), Some(2)},
        key \in {JWT_SECRET_KEY, "another-key"}}

InitJwt ==
    /\ now = 0
    /\ redis = [k \in OtpKeys |-> None]
    /\ users \in {{}, {NewUser(1, "a@x.com")}}
    /\ userSeq = Cardinality(users)
    /\ op = [p \in Procs |-> Idle]
    /\ last = Idle
    /\ overlap = FALSE
    /\ cur = [e \in Emails |-> [otp |-> "", uses |-> 0]]
    /\ okCodes = [e \in Emails |-> <<>>]
    /\ api_tokens = {}
    /\ tokSeq = 0
    /\ hist = <<>>
    /\ issued = None
    /\ api_usage_logs = <<>>

\* a request that carries a bearer token: `last` is what the dependency made
\* of it at time `at`
GetCurrentUser(token) ==
    /\ last' = [pc |-> "done", kind |-> "auth", token |-> token, at |-> now,
                result |-> get_current_user(token, users, now)]
    /\ UNCHANGED <<now, redis, durable, op, overlap, otpHist, tokVars>>

\* the clock advances by the lifetime of a session token
JwtTickStep == ACCESS_TOKEN_EXPIRE_MINUTES * 60

TickJwt ==
    /\ now < MaxTicks * JwtTickStep
    /\ now' = now + JwtTickStep
    /\ UNCHANGED <<redis, durable, op, last, overlap, otpHist, tokVars>>

NextJwt ==
    \/ \E token \in JwtInputs(0) \cup JwtInputs(now) : GetCurrentUser(token)
    \/ TickJwt

SpecJwt == InitJwt /\ [][NextJwt]_vars

\* ---------------------------------------------------------------- claims
\* `last` is a verify call that has returned, in a run where no two calls
\* were ever in flight together
SequentialVerify == ~overlap /\ last.pc = "done" /\ last.kind = "verify"

\* C1: in a sequential run, a verify that presents the code of the entry
\* pending when it starts and returns before that entry's TTL has elapsed
\* returns a signed session token, and a verify that presents that code again
\* after a token was minted for the entry (and no request wrote a new one)
\* returns failure
C1_SingleUse ==
    SequentialVerify =>
        /\ (last.saw = "match" /\ last.inTime =>
                last.ret.status = "ok" /\ last.ret.jwt # None)
        /\ (last.late => last.ret = Fail)

\* a code that was already exchanged for a token is presented again and refused
C1_Witness ==
    SequentialVerify /\ last.late /\ last.ret = Fail /\ cur[last.email].uses = 1

\* C2: for every interleaving of verify calls, at most one session token is
\* minted for one stored OTP entry
C2_AtMostOneToken == \A e \in Emails : cur[e].uses <= 1

\* C3, as stated: after two requests for an email have returned True one after
\* the other, a verify presenting the code of the first one fails
C3_FirstCodeRefused ==
    SequentialVerify /\ Len(okCodes[last.email]) = 2
                     /\ last.otp = okCodes[last.email][1]
        => last.ret = Fail

\* C3, amended: after two requests for an email have returned True one after
\* the other, a verify presenting the code of the first one fails whenever
\* the second request drew a different code
C3_SupersededCodeRefused ==
    SequentialVerify /\ Len(okCodes[last.email]) = 2
                     /\ last.otp = okCodes[last.email][1]
                     /\ last.otp # okCodes[last.email][2]
        => last.ret = Fail

\* the first code is refused while the entry of the second request is pending
C3_Witness ==
    /\ SequentialVerify /\ Len(okCodes[last.email]) = 2
    /\ last.otp = okCodes[last.email][1]
    /\ last.otp # okCodes[last.email][2]
    /\ last.saw = "wrong" /\ last.inTime /\ last.ret = Fail

\* process p returns in this step
Returns(p) == Active(p) /\ op'[p].pc = "idle"

\* C8: in every interleaving, a verify that finds an entry under otp:<email>
\* whose hash differs from the hash of its code returns failure and leaves the
\* store as it is; and in a sequential run the verify that follows such an
\* attempt with the code of the pending entry, before the TTL elapses, returns
\* a session token and leaves no entry under the key
C8_WrongCodeKeepsEntry ==
    [][\A p \in Procs :
        LET key == _get_otp_redis_key(op[p].email) IN
        /\ (/\ op[p].kind = "verify" /\ op[p].pc = "v_get" /\ Returns(p)
            /\ redis[key] # None
            /\ redis[key][1].value # hash_value(op[p].otp))
           => (last'.ret = Fail /\ redis' = redis)
        /\ (/\ op[p].kind = "verify" /\ Returns(p) /\ ~overlap
            /\ op[p].afterWrong /\ last'.inTime)
           => (last'.ret.status = "ok" /\ last'.ret.jwt # None /\ redis'[key] = None)
      ]_vars

\* a wrong code was refused and the correct code, presented next, was accepted
C8_Witness ==
    /\ SequentialVerify /\ last.afterWrong /\ last.inTime
    /\ last.ret.status = "ok" /\ redis[_get_otp_redis_key(last.email)] = None

\* C9: in every interleaving, a request whose email dispatch returned False
\* returns failure, and no entry exists under otp:<email> when it returns
C9_NoOrphanedOtp ==
    [][\A p \in Procs :
        (op[p].kind = "request" /\ op[p].mailed = Some(FALSE) /\ Returns(p))
        => (last'.ret = Fail /\ redis'[_get_otp_redis_key(op[p].email)] = None)
      ]_vars

\* a request whose dispatch failed has returned failure and left no entry
C9_Witness ==
    /\ last.pc = "done" /\ last.kind = "request" /\ last.mailed = Some(FALSE)
    /\ last.ret = Fail /\ redis[_get_otp_redis_key(last.email)] = None

\* ---- claims about API tokens

\* `last` is a validate call that has just returned
ValidateReturned == last.pc = "done" /\ last.kind = "validate"

\* the committed row of a plaintext
RowOf(pl) == CHOOSE r \in api_tokens : r.hashed_token = hash_value(pl)

\* the snapshot cached under the key of a plaintext, if there is one
SnapshotOf(pl) ==
    LET entry == redis[get_api_token_redis_key(hash_value(pl))] IN
    IF entry = None THEN None ELSE Some(json_loads(entry[1].value))

\* C4: in a sequential run, a validate of a plaintext that was validated
\* successfully before and whose token a revoke has since returned for,
\* returns Failure(Revoked)
C4_RevokedAfterRevoke ==
    ~overlap /\ ValidateReturned /\ last.validated /\ last.revoked # "no"
        => last.ret.status = "Revoked"

\* C5: in every interleaving, once a revoke of a token returned the cache
\* ceiling ago or longer, no snapshot of the token carries is_revoked = false,
\* and every validate that starts then, of a token without an expiry, returns
\* Failure(Revoked)
C5_StalenessBounded ==
    /\ \A pl \in Plaintexts :
            RevokedFor(pl, now) = "aged" /\ SnapshotOf(pl) # None
                => SnapshotOf(pl)[1].is_revoked
    /\ (ValidateReturned /\ last.revoked = "aged"
            /\ RowOf(last.plain).expires_at = None
          => last.ret.status = "Revoked")

\* C6: in a sequential run, a validate that starts right after the issuance of
\* its plaintext returned, with an expiry that is absent or in the future and
\* nothing else happening, succeeds with the user id and the token id of the
\* row that the issuance committed
C6_IssueThenValidate ==
    ~overlap /\ ValidateReturned /\ last.fresh
             /\ (RowOf(last.plain).expires_at = None
                    \/ RowOf(last.plain).expires_at[1].t > now)
        => /\ last.ret.status = "ok"
           /\ last.ret.user_id = RowOf(last.plain).user_id
           /\ last.ret.token_id = RowOf(last.plain).id

\* a token with an expiry in the future is validated right after its issuance
C6_Witness ==
    /\ ~overlap /\ ValidateReturned /\ last.fresh
    /\ RowOf(last.plain).expires_at # None /\ RowOf(last.plain).expires_at[1].t > now
    /\ last.ret.status = "ok" /\ last.ret.token_id = RowOf(last.plain).id

\* C7: no step takes a committed api_tokens row from is_revoked = true to
\* is_revoked = false, or removes it
C7_RevokedStaysRevoked ==
    [][\A r \in api_tokens :
          r.is_revoked => \E r2 \in api_tokens' : r2.id = r.id /\ r2.is_revoked]_vars

\* a revoke of an already revoked token has returned and the row is still revoked
C7_Witness ==
    /\ last.pc = "done" /\ last.kind = "revoke" /\ last.revoked # "no"
    /\ last.ret.status = "ok"
    /\ \E r \in api_tokens : r.id = last.token_id /\ r.is_revoked

\* C10: a validate that starts with no cache entry under its key and a
\* committed row, not revoked, whose expires_at is in the past returns
\* Failure(Expired), and
\* when it returns the cache holds no snapshot of the token with an expiry
\* still to come
C10_ExpiredOnMiss ==
    ValidateReturned /\ last.missExpired /\ ~RowOf(last.plain).is_revoked
        => /\ last.ret.status = "Expired"
           /\ \/ SnapshotOf(last.plain) = None
              \/ SnapshotOf(last.plain)[1].expires_at_iso # None
                 /\ fromisoformat(SnapshotOf(last.plain)[1].expires_at_iso[1]).t <= now

\* C17: a revoke that finds no cache entry under the key of its token returns
\* the revoked row and no error, and in a sequential run every validate of the
\* token that starts after such a revoke returned returns Failure(Revoked)
C17_RevokedAfterRevokeOnMiss ==
    /\ (last.pc = "done" /\ last.kind = "revoke" /\ last.afterMiss
            => last.ret.status = "ok")
    /\ (~overlap /\ ValidateReturned /\ last.afterMiss
            => last.ret.status = "Revoked")

\* a revoke returns in this step
RevokeReturns == last'.pc = "done" /\ last'.kind = "revoke"

\* C18: a revoke of a token whose committed row is already revoked returns
\* that row and leaves the table of committed rows exactly as it was
C18_SecondRevokeIsNoOp ==
    [][\A r \in api_tokens :
          (RevokeReturns /\ r.is_revoked
                /\ last'.token_id = r.id /\ last'.owner = r.user_id)
          => /\ api_tokens' = api_tokens
             /\ last'.ret.status = "ok"
             /\ last'.ret.token_id = r.id /\ last'.ret.user_id = r.user_id
      ]_vars

\* an hour after the first revoke returned, a second one has returned the row
C18_Witness ==
    /\ last.pc = "done" /\ last.kind = "revoke" /\ last.revoked = "aged"
    /\ last.ret.status = "ok" /\ last.ret.token_id = last.token_id
    /\ \E r \in api_tokens : r.id = last.token_id /\ r.is_revoked

\* C20: a revoke by a user who does not own the token returns NotFound and
\* changes no committed row and no cache entry; and a committed row goes from
\* not revoked to revoked only in the step in which a revoke of that token by
\* its owner returns
C20_OnlyOwnerRevokes ==
    [][/\ \A r \in api_tokens :
            (RevokeReturns /\ last'.token_id = r.id /\ last'.owner # r.user_id)
            => (last'.ret.status = "NotFound" /\ api_tokens' = api_tokens
                    /\ redis' = redis)
       /\ \A r \in api_tokens, r2 \in api_tokens' :
            (r2.id = r.id /\ ~r.is_revoked /\ r2.is_revoked)
            => (RevokeReturns /\ last'.token_id = r.id /\ last'.owner = r.user_id)
      ]_vars

\* the second account asked to revoke a token of the first one and got NotFound
C20_Witness ==
    /\ last.pc = "done" /\ last.kind = "revoke" /\ last.ret.status = "NotFound"
    /\ \E r \in api_tokens :
            r.id = last.token_id /\ r.user_id # last.owner /\ ~r.is_revoked

\* ---- claims about a failing cache

\* what a validate of pl that finds no cache entry returns at time t, rows
\* being the committed rows
MissOutcome(rows, pl, t) ==
    LET token_db_record == get_api_token_by_hashed_token(rows, hash_value(pl)) IN
    IF token_db_record = None THEN "Invalid"
    ELSE IF token_db_record[1].expires_at # None
            /\ TypeError(token_db_record[1].expires_at[1], Aware(t)) THEN "Error"
    ELSE Verdict(token_data_for_cache(token_db_record[1]), t)

\* C11: a validate that finds a value that is not JSON under its key deletes
\* the key before it looks the token up in the database; when it returns, the
\* cache not having been garbled again, the key holds nothing or well-formed
\* JSON; and in a sequential run what it holds is the snapshot of the committed
\* row, and the validate returns what a validate that finds no entry returns
C11_CorruptIsMiss ==
    [][/\ \A p \in Procs :
            op[p].pc = "v_bad" /\ op'[p].pc # "v_bad"
                => /\ redis'[get_api_token_redis_key(hash_value(op[p].plain))] = None
                   /\ op'[p].pc = "v_db"
       /\ LET entry == redis'[get_api_token_redis_key(hash_value(last'.plain))] IN
          (last'.pc = "done" /\ last'.kind = "validate" /\ last'.corrupt)
            => /\ entry = None \/ ~JSONDecodeError(entry[1].value)
               /\ ~overlap' =>
                    /\ last'.ret.status = MissOutcome(api_tokens', last'.plain, now')
                    /\ entry # None =>
                            \E r \in api_tokens' :
                                /\ r.hashed_token = hash_value(last'.plain)
                                /\ json_loads(entry[1].value) = token_data_for_cache(r)
      ]_vars

\* a validate found a garbled value, looked the token up and cached a snapshot
C11_Witness ==
    /\ ~overlap /\ ValidateReturned /\ last.corrupt /\ last.ret.status = "ok"
    /\ SnapshotOf(last.plain) # None

\* `last` is an issuance that has just returned
IssueReturned == last.pc = "done" /\ last.kind = "issue"

\* C12: an issuance whose cache write raised returns the plaintext all the
\* same and its row is committed; an issuance whose INSERT failed returns no
\* plaintext, commits no row and leaves no cache entry
C12_CacheFailureDoesNotAbort ==
    /\ (IssueReturned /\ last.fault = "set"
            => /\ last.ret.status = "ok" /\ last.ret.api_token = last.plain
               /\ \E r \in api_tokens : r.hashed_token = hash_value(last.plain))
    /\ (IssueReturned /\ last.fault = "persist"
            => /\ last.ret.status = "Error" /\ last.ret.api_token = ""
               /\ ~ \E r \in api_tokens : r.hashed_token = hash_value(last.plain)
               /\ redis[get_api_token_redis_key(hash_value(last.plain))] = None)

\* ---- claims about what the stores hold

\* C16: in every reachable state no committed or flushed api_tokens row holds
\* a plaintext token (it holds the hash and the preview), no Redis key is a
\* plaintext token or an OTP code, a cached snapshot has the four fields
\* user_id, token_id, is_revoked and expires_at_iso and nothing else, and an
\* entry under otp:<email> is the hash of the code mailed for it, not the code
C16_NoPlaintextStored ==
    /\ \A pl \in Plaintexts :
        /\ \A r \in api_tokens :
                /\ r.hashed_token # pl /\ r.token_preview # pl
                /\ r.hashed_token = hash_value(pl)
                        => r.token_preview = generate_token_preview(pl)
        /\ \A p \in Procs :
                (op[p].kind = "issue" /\ op[p].row # None)
                    => op[p].row[1].hashed_token # pl /\ op[p].row[1].token_preview # pl
        /\ LET entry == redis[get_api_token_redis_key(hash_value(pl))] IN
           entry # None /\ ~JSONDecodeError(entry[1].value)
                => DOMAIN json_loads(entry[1].value)
                        = {"user_id", "token_id", "is_revoked", "expires_at_iso"}
    /\ \A k \in DOMAIN redis : k \notin Plaintexts \cup OtpCodes
    /\ \A e \in Emails :
        LET entry == redis[_get_otp_redis_key(e)] IN
        entry # None => /\ entry[1].value \notin OtpCodes
                        /\ entry[1].value = hash_value(cur[e].otp)

\* a row is committed, its snapshot is cached and an OTP entry is pending
C16_Witness ==
    /\ \E r \in api_tokens : redis[get_api_token_redis_key(r.hashed_token)] # None
    /\ \E e \in Emails : redis[_get_otp_redis_key(e)] # None

\* ---- claims about the failure a caller sees

\* `last` is a verify call that has returned
VerifyReturned == last.pc = "done" /\ last.kind = "verify"

\* C14: whatever the branch on which a verify returns without a token (email
\* unknown, no entry pending, wrong code, Redis raising at get or at delete)
\* the endpoint answers 400 with one and the same detail and no token; a
\* malformed code always ends on one of these branches; and a verify that
\* ends on none of them answers 200 with a token
C14_UniformFailure ==
    VerifyReturned =>
        LET response == verify_otp_endpoint(last.ret) IN
        /\ last.cause # "none"
                => response = [status_code |-> 400, detail |-> VERIFY_FAILURE_DETAIL,
                               access_token |-> None]
        /\ last.otp \in MalformedCodes => last.cause # "none"
        /\ last.cause = "none"
                => response.status_code = 200 /\ response.access_token # None

\* the hashes matched, delete_key raised, and the caller got the 400
C14_Witness ==
    /\ VerifyReturned /\ last.cause = "store_error" /\ last.saw = "match"
    /\ verify_otp_endpoint(last.ret).status_code = 400
    /\ redis[_get_otp_redis_key(last.email)] # None

\* C15: a bearer token with a signature of another key, with an exp in the
\* past, without its sub or its user_id claim, or with a user_id that matches
\* no user is answered with 401 and the detail "Could not validate
\* credentials", the same for every cause; any other token is answered with
\* the user of its user_id claim
C15_UniformCredentialsFailure ==
    (last.pc = "done" /\ last.kind = "auth") =>
        LET claims == last.token.claims
            failed ==
                \/ last.token.key # JWT_SECRET_KEY
                \/ claims.exp < last.at
                \/ claims.sub = None \/ claims.user_id = None
                \/ ~ \E u \in users : u.id = claims.user_id[1]
        IN  /\ failed <=> last.result.cause # "none"
            /\ failed => last.result.response = credentials_exception
            /\ ~failed => /\ last.result.response.status_code = 200
                           /\ last.result.response.user # None
                           /\ last.result.response.user[1].id = claims.user_id[1]

\* a token signed by the service for the existing account, presented after
\* its exp, got the 401
C15_Witness ==
    /\ last.pc = "done" /\ last.kind = "auth" /\ last.result.cause = "expired"
    /\ last.token.claims.user_id = Some(1) /\ users # {}
    /\ last.result.response.status_code = 401

\* ---------------------------------------------------------------- C13
\* a request on the protected surface has returned in the step just taken:
\* through the middleware, or through public_ping behind validate_api_key
ProtectedRequestReturns ==
    last'.pc = "done" /\ last'.kind \in {"validate", "dispatch"}

\* C13: every request on the protected surface, whatever its outcome, leaves
\* exactly one more row in table api_usage_logs
C13_ExactlyOneLogRow ==
    [][ProtectedRequestReturns => Len(api_usage_logs') = Len(api_usage_logs) + 1]_vars

\* the part of C13 that holds for public_ping: an accepted request leaves
\* exactly one row, with the ids of the token and of its owner
C13_AcceptedPingLogsOnce ==
    [][(last'.pc = "done" /\ last'.kind = "validate" /\ last'.ret.status = "ok")
        => /\ Len(api_usage_logs') = Len(api_usage_logs) + 1
           /\ api_usage_logs'[Len(api_usage_logs')] =
                ApiUsageLogCreate(Some(last'.ret.token_id), Some(last'.ret.user_id),
                                  200, None)]_vars

\* the session of the middleware holds two usage logs for one request
C13_TwoLogsInSession ==
    last.pc = "done" /\ last.kind = "dispatch" /\ Len(last.session) = 2

\* ---------------------------------------------------------------- C19
\* a committed row of one of the tables appears, goes or changes in the step
DurableChanged ==
    users' # users \/ api_tokens' # api_tokens \/ api_usage_logs' # api_usage_logs

\* a request returns in the step: a call in flight ends, or a request that
\* takes one step is answered
RequestReturns ==
    \/ \E p \in Procs : Active(p) /\ op'[p].pc = "idle"
    \/ /\ \A p \in Procs : ~Active(p) /\ op'[p].pc = "idle"
       /\ last'.pc = "done"

\* the request that returns in the step completed without raising
CompletesWithoutRaising ==
    IF last'.kind = "dispatch" THEN last'.status_code = 200
    ELSE last'.ret.status = "ok"

\* C19: the committed rows of users, api_tokens and api_usage_logs change only
\* in a step in which a request returns without raising, and then every row
\* that the request had flushed is committed; when a request returns having
\* failed, the three tables are exactly what they were, and what it had
\* flushed is in none of them
C19_AllOrNothing ==
    [][/\ DurableChanged => (RequestReturns /\ CompletesWithoutRaising)
       /\ \A p \in Procs :
            (Active(p) /\ op'[p].pc = "idle") =>
                LET wroteUser == op[p].kind = "request" /\ op[p].created
                    wroteToken == op[p].kind \in {"issue", "revoke"} /\ op[p].row # None
                IN  IF CompletesWithoutRaising
                    THEN /\ wroteUser => op[p].user[1] \in users'
                         /\ wroteToken => op[p].row[1] \in api_tokens'
                    ELSE /\ ~DurableChanged
                         /\ wroteUser => op[p].user[1] \notin users'
                         /\ (wroteToken /\ op[p].row[1] \notin api_tokens)
                                => op[p].row[1] \notin api_tokens'
      ]_vars

\* a request for a code that had inserted the account has failed at the
\* dispatch of the mail, and the account is not in the table
C19_Witness ==
    /\ last.pc = "done" /\ last.kind = "request" /\ last.ret.status = "fail"
    /\ last.mailed = Some(FALSE)
    /\ get_user_by_email(users, last.email) = None
    /\ userSeq > 0

\* ---------------------------------------------------------------- C21
\* the expiry recorded in a snapshot is not after t
SnapshotExpired(data, t) ==
    data.expires_at_iso # None /\ fromisoformat(data.expires_at_iso[1]).t <= t

\* C21: a validate that has resolved a snapshot, from the cache or from the
\* database, returns Failure(Revoked) if the snapshot is revoked, whether or
\* not its expiry is past, and success only if the snapshot is neither revoked
\* nor past its expiry
C21_RevokedBeforeExpired ==
    (ValidateReturned /\ last.seen # None) =>
        LET data == last.seen[1].data
            t == last.seen[1].at
        IN  /\ data.is_revoked => last.ret.status = "Revoked"
            /\ last.ret.status = "ok"
                    => (~data.is_revoked /\ ~SnapshotExpired(data, t))

\* the part of C21 that holds for both tiers: Failure(Expired) is never the
\* answer for a revoked snapshot, and success needs neither to hold
C21_NeverExpiredForRevoked ==
    (ValidateReturned /\ last.seen # None) =>
        LET data == last.seen[1].data
            t == last.seen[1].at
        IN  /\ data.is_revoked => last.ret.status # "Expired"
            /\ last.ret.status = "ok"
                    => (~data.is_revoked /\ ~SnapshotExpired(data, t))

\* a snapshot from the cache, revoked and past its expiry, was answered Revoked
C21_CacheTierRevokedAndExpired ==
    /\ ValidateReturned /\ last.seen # None /\ last.seen[1].tier = "cache"
    /\ last.seen[1].data.is_revoked
    /\ SnapshotExpired(last.seen[1].data, last.seen[1].at)
    /\ last.ret.status = "Revoked"

\* ---------------------------------------------------------------- C22
\* C22: a verify returns a session token only in the step that follows its
\* hash match and in which its delete_key has emptied the key of the email;
\* and a verify whose delete_key raises returns failure, without a token
C22_DeleteBeforeMint ==
    [][\A p \in Procs :
        (op[p].kind = "verify" /\ Active(p) /\ op'[p].pc = "idle") =>
            /\ last'.ret.jwt # None =>
                    /\ op[p].pc = "v_del" /\ op[p].stored # None
                    /\ op[p].stored[1].value = hash_value(op[p].otp)
                    /\ redis'[_get_otp_redis_key(op[p].email)] = None
                    /\ last'.ret.status = "ok"
            /\ (op[p].pc = "v_del" /\ last'.cause = "store_error") =>
                    /\ last'.ret.status = "fail" /\ last'.ret.jwt = None
                    /\ verify_otp_endpoint(last'.ret).status_code = 400
      ]_vars

\* a verify has returned a session token and the key of its email is empty
C22_Witness ==
    /\ VerifyReturned /\ last.ret.status = "ok" /\ last.ret.jwt # None
    /\ redis[_get_otp_redis_key(last.email)] = None

\* a verify whose code matched has failed at delete_key: no token, and the
\* entry is still there
C22_DeleteRaised ==
    /\ VerifyReturned /\ last.cause = "store_error" /\ last.saw = "match"
    /\ last.ret.jwt = None
    /\ redis[_get_otp_redis_key(last.email)] # None

\* ---------------------------------------------------------------- C23
\* the last instant of the clock of the OTP runs
Horizon == MaxTicks * OtpTickStep

\* C23: an entry under otp:<email> is written with the TTL of
\* OTP_EXPIRE_MINUTES and is in the store only while that TTL has not elapsed;
\* a verify that starts when the entry is gone fails, whatever its code; and
\* an entry whose TTL ends within the run is eventually gone or replaced by a
\* later one
C23_PendingOtpExpires ==
    /\ [][\A k \in OtpKeys :
            (redis'[k] # None /\ redis'[k] # redis[k])
                => redis'[k][1].exp = now' + OTP_EXPIRE_MINUTES * 60]_vars
    /\ [](\A k \in OtpKeys : redis[k] # None => now < redis[k][1].exp)
    /\ []((VerifyReturned /\ last.saw = "nothing") => last.ret.status = "fail")
    /\ \A k \in OtpKeys :
            (redis[k] # None /\ redis[k][1].exp <= Horizon)
                ~> (redis[k] = None \/ redis[k][1].exp > Horizon)

\* the code mailed last was presented after its entry had expired, and refused
C23_Witness ==
    /\ VerifyReturned /\ last.saw = "nothing" /\ last.ret.status = "fail"
    /\ last.otp = cur[last.email].otp /\ cur[last.email].uses = 0
    /\ Len(okCodes[last.email]) > 0
    /\ now >= OTP_EXPIRE_MINUTES * 60

\* ---------------------------------------------------------------- C24
\* C24: when a revoke that found its token, not yet revoked, has returned
\* after a Redis call of its cache update raised, the committed row of the
\* token is revoked
C24_RevokedDespiteCacheFailure ==
    (last.pc = "done" /\ last.kind = "revoke" /\ last.fault \in {"get", "set", "delete"})
        => \E r \in api_tokens : r.id = last.token_id /\ r.is_revoked

\* what the code does instead: the caller gets an error and the row is as it
\* was, unless another revoke of the token has committed
C24_CacheFailureUndoesRevoke ==
    [][(last'.pc = "done" /\ last'.kind = "revoke"
            /\ last'.fault \in {"get", "set", "delete"})
        => (last'.ret.status = "Error" /\ api_tokens' = api_tokens)]_vars

\* ---------------------------------------------------------------- C25
\* C25: in the step in which a revoke that found its token returns, the row
\* already revoked or not, the cache is left with no snapshot of that token
\* that says is_revoked = false
C25_NoUnrevokedSnapshotAfterRevoke ==
    [][(RevokeReturns /\ last'.ret.status = "ok") =>
        \A r \in api_tokens' :
            r.id = last'.token_id =>
                LET entry == redis'[get_api_token_redis_key(r.hashed_token)] IN
                entry = None \/ json_loads(entry[1].value).is_revoked
      ]_vars

\* the part of C25 that holds: a revoke that found the row not yet revoked
\* leaves no such snapshot in the step in which it returns
C25_FirstRevokeLeavesNone ==
    [][\A p \in Procs :
        (Active(p) /\ op[p].kind = "revoke" /\ op'[p].pc = "idle"
            /\ last'.ret.status = "ok") =>
            LET entry == redis'[get_api_token_redis_key(hash_value(op[p].plain))] IN
            entry = None \/ json_loads(entry[1].value).is_revoked
      ]_vars

\* ---------------------------------------------------------------- C26
\* the snapshot data is a projection of row r: same ids, same expiry
ProjectionOf(data, r) ==
    /\ data.user_id = r.user_id /\ data.token_id = r.id
    /\ IF r.expires_at = None THEN data.expires_at_iso = None
       ELSE /\ data.expires_at_iso # None
            /\ fromisoformat(data.expires_at_iso[1]).t = r.expires_at[1].t

\* an issuance of pl has written the cache and has not returned yet
IssuanceInFlight(pl) ==
    \E p \in Procs : op[p].kind = "issue" /\ op[p].pc = "i_commit" /\ op[p].plain = pl

\* C26: in every state, a well-formed entry under apitoken:<hash>, once no
\* issuance of that hash is in flight, is a projection of a committed row of
\* api_tokens with that hash; in particular there is such a row
C26_CacheIsProjection ==
    \A pl \in Plaintexts :
        LET entry == redis[get_api_token_redis_key(hash_value(pl))] IN
        (entry # None /\ ~JSONDecodeError(entry[1].value) /\ ~IssuanceInFlight(pl))
            => \E r \in api_tokens :
                    /\ r.hashed_token = hash_value(pl)
                    /\ ProjectionOf(json_loads(entry[1].value), r)

\* the part of C26 that holds: an entry whose hash has a committed row is a
\* projection of that row
C26_ProjectionOfCommittedRow ==
    \A pl \in Plaintexts : \A r \in api_tokens :
        LET entry == redis[get_api_token_redis_key(hash_value(pl))] IN
        (entry # None /\ ~JSONDecodeError(entry[1].value)
                /\ r.hashed_token = hash_value(pl))
            => ProjectionOf(json_loads(entry[1].value), r)

\* ---------------------------------------------------------------- C27
\* the key of the token that the revoke of process p is about
RevokeKey(p) == get_api_token_redis_key(op[p].row[1].hashed_token)

\* C27: a revoke that finds a snapshot goes on to delete the entry if the
\* recorded expiry is past and to overwrite it otherwise; the overwrite leaves
\* is_revoked = true and, over an entry that had a TTL, a TTL that ends no
\* later than that one did; the delete leaves no entry
C27_RevokeKeepsRemainingTtl ==
    [][\A p \in Procs :
        /\ (op[p].pc = "k_get" /\ redis[RevokeKey(p)] # None
                /\ ~JSONDecodeError(redis[RevokeKey(p)][1].value)
                /\ op'[p].pc \notin {"idle", "k_get"})
            => op'[p].pc = IF SnapshotExpired(json_loads(redis[RevokeKey(p)][1].value), now)
                           THEN "k_del" ELSE "k_set"
        /\ (op[p].pc = "k_set" /\ op'[p].pc = "idle" /\ last'.ret.status = "ok")
            => LET before == redis[RevokeKey(p)]
                   after == redis'[RevokeKey(p)]
               IN  /\ after # None /\ json_loads(after[1].value).is_revoked
                   /\ (before # None /\ before[1].exp # NoTtl)
                        => (after[1].exp # NoTtl /\ after[1].exp <= before[1].exp)
        /\ (op[p].pc = "k_del" /\ op'[p].pc = "idle" /\ last'.ret.status = "ok")
            => redis'[RevokeKey(p)] = None
      ]_vars

\* the part of C27 that holds: over an entry that records an expiry, the
\* overwrite leaves a TTL that ends when the TTL of the entry did or before
C27_TtlKeptWhenExpiryRecorded ==
    [][\A p \in Procs :
        (op[p].pc = "k_set" /\ op'[p].pc = "idle" /\ last'.ret.status = "ok"
            /\ op[p].data[1].expires_at_iso # None)
            => LET before == redis[RevokeKey(p)]
                   after == redis'[RevokeKey(p)]
               IN  (before # None /\ before[1].exp # NoTtl /\ ~overlap')
                        => (after[1].exp # NoTtl /\ after[1].exp <= before[1].exp)
      ]_vars

\* ---------------------------------------------------------------- C28
\* the issuance of process p seeds the cache in the step, for a row whose
\* expiry is still to come
SeedsWithExpiry(p) ==
    /\ op[p].pc = "i_cache" /\ op'[p].pc = "i_commit"
    /\ op[p].row[1].expires_at # None /\ op[p].row[1].expires_at[1].t > now

\* C28: the entry that an issuance seeds for a token with an expiry still to
\* come has a TTL of min(CACHE_EXPIRY_SECONDS, seconds until the expiry)
C28_SeedTtlIsMinOfCeilingAndRemaining ==
    [][\A p \in Procs :
        SeedsWithExpiry(p) =>
            LET entry == redis'[get_api_token_redis_key(op[p].row[1].hashed_token)] IN
            /\ entry # None /\ entry[1].exp # NoTtl
            /\ entry[1].exp - now =
                    Min(CACHE_EXPIRY_SECONDS, op[p].row[1].expires_at[1].t - now)
      ]_vars

\* the part of C28 that holds: the TTL is the time until the expiry
C28_SeedTtlIsRemaining ==
    [][\A p \in Procs :
        SeedsWithExpiry(p) =>
            LET entry == redis'[get_api_token_redis_key(op[p].row[1].hashed_token)] IN
            /\ entry # None /\ entry[1].exp # NoTtl
            /\ entry[1].exp = op[p].row[1].expires_at[1].t
      ]_vars

\* ---------------------------------------------------------------- C29
\* the committed row that the validation of process p reads on a cache miss
MissedRow(p) == get_api_token_by_hashed_token(api_tokens, hash_value(op[p].plain))

\* the TTL t bounds of a write-back for a row read at the current time
WriteBackTtlOk(rec, ttl) ==
    /\ ttl <= CACHE_EXPIRY_SECONDS
    /\ rec.expires_at # None /\ rec.expires_at[1].t > now => ttl <= rec.expires_at[1].t - now
    /\ rec.expires_at # None /\ rec.expires_at[1].t <= now => ttl = EXPIRED_CACHE_SECONDS

\* the validation of process p reads a row in the step / writes it back
ReadsRow(p) == op[p].pc = "v_db" /\ op'[p].pc # "v_db" /\ MissedRow(p) # None
WritesBack(p) == op[p].pc = "v_set" /\ op'[p].pc # "v_set"

\* C29: a validation that reads a row from the durable store goes on to write
\* it back without an error, for rows with and without an expiry, with a TTL
\* of at most CACHE_EXPIRY_SECONDS and at most the time until the row's expiry,
\* and of EXPIRED_CACHE_SECONDS for a row that has expired; the entry is
\* written with that TTL
C29_WriteBackTtlBounded ==
    [][\A p \in Procs :
        /\ ReadsRow(p) =>
              /\ op'[p].pc = "v_set"
              /\ WriteBackTtlOk(MissedRow(p)[1], op'[p].ttl[1])
        /\ WritesBack(p) =>
              LET entry == redis'[get_api_token_redis_key(hash_value(op[p].plain))] IN
              /\ entry # None /\ entry[1].exp # NoTtl
              /\ entry[1].exp - now = op[p].ttl[1]
      ]_vars

\* the part of C29 that holds: the same, for the rows whose read does not raise
C29_WriteBackTtlBoundedUnlessRaised ==
    [][\A p \in Procs :
        /\ ReadsRow(p) /\ op'[p].pc = "v_set" =>
              WriteBackTtlOk(MissedRow(p)[1], op'[p].ttl[1])
        /\ ReadsRow(p) /\ MissedRow(p)[1].expires_at = None => op'[p].pc = "v_set"
        /\ WritesBack(p) =>
              LET entry == redis'[get_api_token_redis_key(hash_value(op[p].plain))] IN
              /\ entry # None /\ entry[1].exp # NoTtl
              /\ entry[1].exp - now = op[p].ttl[1]
      ]_vars

\* a write-back took place: the entry of a validated miss is in the cache
C29_WroteBack ==
    /\ ValidateReturned /\ last.seen # None /\ last.seen[1].tier = "db"
    /\ last.ret.status = "ok"
    /\ redis[get_api_token_redis_key(hash_value(last.plain))] # None

\* ---------------------------------------------------------------- C30
\* the validation of process p, which judged a snapshot read from the cache,
\* returns Failure(Expired) in the step
ReturnsExpiredFromCache(p) ==
    /\ op[p].pc = "v_exp" /\ op'[p].pc # "v_exp"
    /\ op[p].seen # None /\ op[p].seen[1].tier = "cache"
    /\ last'.pc = "done" /\ last'.kind = "validate" /\ last'.ret.status = "Expired"

\* C30: when validate returns Failure(Expired) for a snapshot that came from a
\* cache hit, no entry is stored under the token's key in the state it returns in
C30_ExpiredHitDeletesEntry ==
    [][\A p \in Procs :
        ReturnsExpiredFromCache(p) =>
            redis'[get_api_token_redis_key(hash_value(op[p].plain))] = None
      ]_vars

\* a validation has just returned Failure(Expired) for a cached snapshot whose
\* expiry had passed, and the key is empty
C30_Witness ==
    /\ ValidateReturned /\ last.ret.status = "Expired"
    /\ last.seen # None /\ last.seen[1].tier = "cache"
    /\ SnapshotExpired(last.seen[1].data, last.seen[1].at)
    /\ redis[get_api_token_redis_key(hash_value(last.plain))] = None

\* ---------------------------------------------------------------- C31
\* what the committed row of plaintext pl determines at time t
DurableOutcome(pl, t) ==
    LET row == get_api_token_by_hashed_token(api_tokens, hash_value(pl)) IN
    IF row = None THEN "Invalid"
    ELSE IF row[1].is_revoked THEN "Revoked"
    ELSE IF row[1].expires_at # None /\ row[1].expires_at[1].t <= t THEN "Expired"
    ELSE "ok"

\* the validation of process p, which found a cached snapshot whose
\* expires_at_iso does not parse, returns in the step (no store call raised)
ReturnsFromMalformed(p) ==
    /\ op[p].pc = "v_fmt" /\ op'[p].pc # "v_fmt"
    /\ last'.pc = "done" /\ last'.kind = "validate" /\ last'.fault = "format"

\* C31: a validate that finds a cached snapshot whose expires_at_iso is not a
\* timestamp deletes the entry and returns what the durable row determines,
\* never an error
C31_MalformedSelfHealed ==
    [][\A p \in Procs :
        ReturnsFromMalformed(p) =>
            /\ redis'[get_api_token_redis_key(hash_value(op[p].plain))] = None
            /\ last'.ret.status # "Error"
            /\ last'.ret.status = DurableOutcome(op[p].plain, now)
      ]_vars

\* the part of C31 that holds: the entry is deleted
C31_MalformedDeleted ==
    [][\A p \in Procs :
        ReturnsFromMalformed(p) =>
            redis'[get_api_token_redis_key(hash_value(op[p].plain))] = None
      ]_vars

\* ---------------------------------------------------------------- C32
\* a validate has just returned after one of its store calls raised
ValidateStoreFailed ==
    ValidateReturned /\ last.fault \in {"get", "lookup", "set", "delete"}

\* C32: a validate during which a cache call or the durable lookup raised
\* returns the failure it returns for an unknown token
C32_StoreErrorIsInvalidCredential ==
    ValidateStoreFailed => last.ret.status = "Invalid"

\* what the code does instead: the exception is the outcome of the request
C32_StoreErrorIsSurfaced ==
    ValidateStoreFailed => last.ret.status = "Error"

\* ---------------------------------------------------------------- C33
\* the middleware has just answered a request
MwReturned == last.pc = "done" /\ last.kind = "dispatch"

\* ... whose token it found: the usage log carries the id of the token
MwFoundToken ==
    MwReturned /\ last.session # <<>> /\ last.session[1].api_token_id # None

\* the committed row of the token of that request
MwRow == get_api_token_by_hashed_token(api_tokens, hash_value(last.plain[1]))[1]

\* the middleware rejected the request with the given message
MwRejectedWith(msg) ==
    /\ MwReturned /\ last.status_code \in {401, 403}
    /\ Len(last.session) = 1 /\ last.session[1].error_message = Some(msg)

\* C33: the middleware rejects a token that it found and that is not revoked
\* as expired exactly when expires_at is set and expires_at <= now, which is
\* the condition of validate_api_key
C33_MiddlewareExpiredIffNotAfterNow ==
    MwFoundToken /\ ~MwRow.is_revoked =>
        (MwRejectedWith("API token has expired.")
            <=> (MwRow.expires_at # None /\ MwRow.expires_at[1].t <= now))

\* what the middleware does: expired exactly when expires_at < now
C33_MiddlewareExpiredIffBeforeNow ==
    MwFoundToken /\ ~MwRow.is_revoked =>
        (MwRejectedWith("API token has expired.")
            <=> (MwRow.expires_at # None /\ MwRow.expires_at[1].t < now))

\* ---------------------------------------------------------------- C34
\* the user of the token of the request that the middleware answered is
\* missing or inactive, and the token itself passes the checks of lines 78-88
MwUserIssue ==
    /\ MwFoundToken /\ ~MwRow.is_revoked
    /\ ~(MwRow.expires_at # None /\ MwRow.expires_at[1].t < now)
    /\ LET current_user == get_user_by_id(users, MwRow.user_id)
       IN  current_user = None \/ ~current_user[1].is_active

\* the usage log of that rejection
UserIssueLog ==
    ApiUsageLogCreate(Some(MwRow.id), Some(MwRow.user_id), 403,
                      Some("User associated with API token is inactive or not found."))

\* C34: a request whose token is valid but whose user is inactive or missing is
\* rejected without the downstream handler being invoked, and table
\* api_usage_logs has one more row, with the status and the message of the
\* rejection
C34_InactiveUserRejectedAndLogged ==
    [][MwUserIssue' =>
        /\ last'.status_code = 403 /\ ~last'.called
        /\ api_usage_logs' = Append(api_usage_logs, UserIssueLog')
      ]_vars

\* the part of C34 that holds: the rejection, and the log in the session of
\* the middleware
C34_InactiveUserRejected ==
    MwUserIssue =>
        /\ last.status_code = 403 /\ ~last.called
        /\ last.session = <<UserIssueLog>>

\* such a request has been answered
C34_InactiveUserSeen == MwUserIssue /\ last.status_code = 403

\* ---------------------------------------------------------------- C35
\* the middleware looked up the given token and nothing raised: it answers as
\* the committed row of that token, or its absence, requires
MwValidated(token) ==
    /\ last.plain = Some(token) /\ last.looked_up
    /\ last.status_code # 500 =>
         LET row == get_api_token_by_hashed_token(api_tokens, hash_value(token))
         IN  IF row = None THEN MwRejectedWith("Invalid API token (not found).")
             ELSE MwFoundToken /\ last.session[1].api_token_id = Some(row[1].id)

ValidatedRowExpired ==
    /\ ValidateReturned
    /\ \E r \in api_tokens : /\ r.hashed_token = hash_value(last.plain)
                              /\ r.expires_at # None /\ r.expires_at[1].t <= now

\* C36: validate does not return success for a token whose expires_at is set
\* and not after the current time, whatever the cache holds for it
C36_NoSuccessForExpiredToken ==
    ValidatedRowExpired => last.ret.status # "ok"

\* a validate of such a token found a snapshot in the cache and rejected it
C36_Witness ==
    /\ ValidatedRowExpired /\ last.ret.status = "Expired"
    /\ last.seen # None /\ last.seen[1].tier = "cache"

\* ---------------------------------------------------------------- C37
\* the store holds, under key k, a snapshot with the given is_revoked
SnapshotRevoked(store, k, is_revoked) ==
    /\ store[k] # None /\ ~JSONDecodeError(store[k][1].value)
    /\ json_loads(store[k][1].value).is_revoked = is_revoked

\* C37: the snapshot stored under the key of a token never goes from
\* is_revoked = true to is_revoked = false
C37_CachedRevocationIsMonotonic ==
    [][\A k \in ApiTokenKeys :
        SnapshotRevoked(redis, k, TRUE) => ~SnapshotRevoked(redis', k, FALSE)]_vars

\* the part of C37 that holds: only the write-back of a validate does it, with
\* a row it read before the revoke was committed
C37_OnlyStaleWriteBack ==
    [][\A k \in ApiTokenKeys :
        SnapshotRevoked(redis, k, TRUE) /\ SnapshotRevoked(redis', k, FALSE) =>
            \E p \in Procs : /\ op[p].pc = "v_set" /\ op'[p].pc # "v_set"
                              /\ ~op[p].data[1].is_revoked
                              /\ overlap]_vars

\* ---------------------------------------------------------------- C38
\* the requestOtp of process p, whose email dispatch failed, cleans up and
\* returns in the step
CleansUp(p) == op[p].kind = "request" /\ op[p].pc = "r_del" /\ op'[p].pc = "idle"

\* the entry under the key of that request is not the one it wrote: it is the
\* code of the latest request for the email that returned success, and no
\* other call is in flight
HoldsCodeOfSuccessfulRequest(p) ==
    LET entry == redis[_get_otp_redis_key(op[p].email)]
        ok == okCodes[op[p].email]
    IN  /\ entry # None /\ entry[1].value # hash_value(op[p].otp)
        /\ ok # <<>> /\ entry[1].value = hash_value(ok[Len(ok)])
        /\ \A q \in Procs \ {p} : ~Active(q)

\* C38: a requestOtp whose dispatch failed leaves the entry of a concurrent
\* requestOtp for the same email that returned success as it is
C38_FailedRequestKeepsOthersEntry ==
    [][\A p \in Procs :
        CleansUp(p) /\ HoldsCodeOfSuccessfulRequest(p) =>
            redis'[_get_otp_redis_key(op[p].email)] = redis[_get_otp_redis_key(op[p].email)]
      ]_vars

\* the part of C38 that holds: no entry is left under the key of a request
\* that failed, its own included
C38_FailedRequestLeavesNoEntry ==
    [][\A p \in Procs :
        CleansUp(p) => redis'[_get_otp_redis_key(op[p].email)] = None]_vars

\* ---------------------------------------------------------------- C39
\* the verifyOtp of process p, whose code matched the entry it read, deletes
\* and returns its session token in the step
DeletesMatched(p) ==
    /\ op[p].kind = "verify" /\ op[p].pc = "v_del" /\ op'[p].pc = "idle"
    /\ last'.ret.status = "ok"

\* a requestOtp has stored a code under the key of that verification since it
\* read the entry, and that code is pending
FreshCodeStored(p) ==
    ~op[p].holds /\ redis[_get_otp_redis_key(op[p].email)] # None

\* C39: a successful verifyOtp leaves a code that a requestOtp stored between
\* its read and its delete as it is
C39_VerifyKeepsFreshCode ==
    [][\A p \in Procs :
        DeletesMatched(p) /\ FreshCodeStored(p) =>
            redis'[_get_otp_redis_key(op[p].email)] = redis[_get_otp_redis_key(op[p].email)]
      ]_vars

\* the part of C39 that holds: after a successful verifyOtp no entry is left
\* under the key, whichever request wrote it
C39_VerifyLeavesNoEntry ==
    [][\A p \in Procs :
        DeletesMatched(p) => redis'[_get_otp_redis_key(op[p].email)] = None]_vars

\* ---------------------------------------------------------------- C40
\* the middleware has just rejected a request
MwRejected == MwReturned /\ last.status_code \in {401, 403}

\* C40: a request that the middleware rejects leaves last_used_at of the token
\* as it was, in the session of the request and in the committed row, and
\* last_used_at is set only for a request that passed every check
C40_RejectionKeepsLastUsedAt ==
    [][/\ MwRejected' => last'.last_used_at = None /\ api_tokens' = api_tokens
       /\ MwReturned' /\ last'.last_used_at # None => last'.called
      ]_vars

\* the part of C40 that holds: a request rejected as not provided, not found,
\* revoked or expired leaves last_used_at alone, and no request through the
\* middleware changes a committed row
C40_EarlyRejectionKeepsLastUsedAt ==
    [][/\ MwRejected' /\ ~MwUserIssue' => last'.last_used_at = None
       /\ MwReturned' => api_tokens' = api_tokens
      ]_vars

====
